---- MODULE Spec2Model ----
(***************************************************************************)
(* A model of the Atlas geospatial aggregation service (lewiskimaru/lasomi, *)
(* backend/src): the in-memory job store, the two extraction routes (the    *)
(* current generation under /api/v2 and the legacy one under /api/v1), the  *)
(* per-source extraction tasks on the single event loop, the geometry       *)
(* cleaners and the job routes.                                             *)
(*                                                                          *)
(* Time is the wall clock in whole seconds.                                 *)
(***************************************************************************)
EXTENDS Integers, Sequences, FiniteSets, TLC

VARIABLES
    now,        \* the wall clock (datetime.now() / time.time()), in seconds
    stores,     \* the InMemoryJobStorage instances of the process, by owner
    nextJob,    \* number of job ids handed out so far (uuid4() is fresh)
    gee_ok,     \* process environment: Earth Engine credentials usable
    debug,      \* settings.debug
    startup,    \* the StartupLogger of the process
    limiter,    \* one OpenStreetMapConnector's rate limiting and its queries
    designs,    \* the design storage: documents on disk per design id
    req,        \* the extraction request being handled, or NoRequest
    tasks,      \* source -> the task created for it by the request in req
    built,      \* sources whose connector constructor has been called for req
    http,       \* the last HTTP response sent
    ticks,      \* how many times the clock was advanced by the environment
    hist,       \* history: what was stored / deleted / last looked up
    call        \* the last direct call of a component: function, argument, outcome

vars ==
    <<now, stores, nextJob, gee_ok, debug, startup, limiter, designs, req, tasks,
      built, http, ticks, hist, call>>

----------------------------------------------------------------------------
(* Bounds of the model *)

MaxJobs == 2          \* job ids 1..MaxJobs
MaxSources == 2       \* sources named by one extraction request
MaxFeatures == 2      \* features in one provider answer
MaxTicks == 3         \* clock advances by the environment
MaxCleanFeatures == 3 \* features in a collection handed to the cleaner
MaxExportFeatures == 1 \* features of one source in an exported aggregate
MaxCoords == 4         \* coordinate pairs of a ring or of an element's geometry
MaxSteps == 2          \* steps of one startup sequence
MaxReports == 3        \* reports made through step handles
MaxQueries == 3        \* queries made through one map connector
MaxDesigns == 2        \* design uploads

(* Program constants *)

DefaultTtl == 3600
CleanupInterval == 300
SecondsPerDay == 86400
DefaultTimeout == 30
OverpassTimeout == 25
ClientHeadroom == 5
MinRequestInterval == 2   \* 1.0 / settings.overpass_rate_limit, in seconds
UnixTime == 1000          \* time.time() when the process started
MaxAoiAreaKm2 == 100

JobIds == 1..MaxJobs

Absent == [none |-> TRUE]    \* Python None where an object is expected
NoneStr == "none"            \* Python None where a string is expected

NoCall == [fn |-> "none", arg |-> Absent, out |-> Absent]

----------------------------------------------------------------------------
(* InMemoryJobStorage *)

StorageInstances == {"extract_v2", "download_v2"}

\* __init__: empty dict, _last_cleanup = datetime.now() at construction
NewJobStorage(t) ==
    [storage |-> [j \in JobIds |-> Absent], last_cleanup |-> t]

\* datetime.now() + timedelta(seconds=ttl_seconds)
ExpiryTimeNoTtl(t, ttl_seconds) == t
ExpiryTime(t, ttl_seconds) == t + ttl_seconds

\* (now - self._last_cleanup).seconds: timedelta.seconds is the seconds
\* component of the normalised (days, seconds) pair
TimedeltaSeconds(d) == d % SecondsPerDay

Expired(entry, t) == t > entry.expires_at

\* _cleanup_expired
CleanupExpired(st, t) ==
    IF TimedeltaSeconds(t - st.last_cleanup) < CleanupInterval
    THEN st
    ELSE [storage |-> [j \in JobIds |->
                         IF st.storage[j] # Absent /\ Expired(st.storage[j], t)
                         THEN Absent ELSE st.storage[j]],
          last_cleanup |-> t]

\* store_job_result: the new store state (the call returns True)
StoreJobResult(st, t, job_id, result, ttl_seconds) ==
    CleanupExpired(
        [st EXCEPT !.storage[job_id] =
            [data |-> result,
             expires_at |-> ExpiryTime(t, ttl_seconds),
             created_at |-> t]],
        t)

\* get_job_result: the value returned
GetJobResultValue(st, t, job_id) ==
    IF st.storage[job_id] = Absent THEN Absent
    ELSE IF Expired(st.storage[job_id], t) THEN Absent
    ELSE st.storage[job_id].data

\* get_job_result: the store state it leaves (evicts an expired entry)
GetJobResultStore(st, t, job_id) ==
    IF st.storage[job_id] # Absent /\ Expired(st.storage[job_id], t)
    THEN [st EXCEPT !.storage[job_id] = Absent]
    ELSE st

\* delete_job_result: the store state it leaves (the call returns True)
DeleteJobResult(st, job_id) ==
    [st EXCEPT !.storage[job_id] = Absent]

----------------------------------------------------------------------------
(* Data model: sources, features, feature collections *)

DataSourceType ==
    {"microsoft_buildings", "google_buildings", "osm_buildings", "osm_roads",
     "osm_railways", "osm_landmarks", "osm_natural"}

\* the connector registry of the factory / FeatureAggregator._create_connector
GEESources == {"microsoft_buildings", "google_buildings"}
OSMSources == DataSourceType \ GEESources

BuildingSources == {"google_buildings", "microsoft_buildings", "osm_buildings"}

COMPLETED == "completed"
FAILED == "failed"
PARTIAL == "partial"

\* A feature.  Its footprint is the stretch [lo, hi] of a two-metre-deep
\* strip, in metres of the projected CRS, so that an area is twice a
\* length.  shape_ok stands for the three shape-quality metrics
\* (compactness, elongation, minimum width) all passing; aoi is where the
\* geometry lies relative to the request's AOI polygon.
Feat(id, conf, lo, hi, prop_area, shape, where) ==
    [id |-> id, confidence |-> conf, lo |-> lo, hi |-> hi,
     area_in_meters |-> prop_area, shape_ok |-> shape, aoi |-> where]

GeomArea(f) == 2 * (f.hi - f.lo)

Max2(a, b) == IF a > b THEN a ELSE b
Min2(a, b) == IF a < b THEN a ELSE b

\* length of the common stretch of two footprints (negative: a gap)
CommonLength(f, g) == Min2(f.hi, g.hi) - Max2(f.lo, g.lo)

IntersectionArea(f, g) == 2 * Max2(0, CommonLength(f, g))

SeqRange(sq) == {sq[i] : i \in 1..Len(sq)}

RECURSIVE SelectRows(_, _)
\* boolean-mask selection of a table: keeps order and index labels
SelectRows(rows, keep) ==
    IF rows = <<>> THEN <<>>
    ELSE IF Head(rows) \in keep
         THEN <<Head(rows)>> \o SelectRows(Tail(rows), keep)
         ELSE SelectRows(Tail(rows), keep)

----------------------------------------------------------------------------
(* BuildingsCleaner and RoadsCleaner.  Percentages stand for the fractions *)
(* of the source (0.65 -> 65, 0.30 -> 30); edge_buffer_x2 is twice          *)
(* edge_buffer_m (0.5 m -> 1), the amount an erosion shortens a stretch.    *)

\* BuildingsCleanerConfig as extract_v2 builds it from cleaning_config
\* (a missing key takes the default given in the .get call)
CleanerConfigV2(cleaning_config) ==
    [min_area_m2 |-> 8,
     overlap_threshold |-> 30,
     edge_buffer_x2 |-> 1,
     strategy |-> IF cleaning_config = NoneStr THEN "highest_confidence"
                  ELSE cleaning_config,
     google_min_confidence |-> 65,
     osm_min_area_m2 |-> 0]

\* BuildingsCleanerConfig(**cleaning_config) of the legacy route: the
\* dataclass defaults
CleanerConfigV1(cleaning_config) ==
    [min_area_m2 |-> 8,
     overlap_threshold |-> 30,
     edge_buffer_x2 |-> 1,
     strategy |-> IF cleaning_config = NoneStr THEN "highest_confidence"
                  ELSE cleaning_config,
     google_min_confidence |-> 65,
     osm_min_area_m2 |-> 0]

\* _feature_collection_to_gdf: one row per feature, RangeIndex labels 0..n-1
FeatureCollectionToGdf(fc) ==
    [i \in 1..Len(fc) |-> [label |-> i - 1, f |-> fc[i]]]

\* _gdf_to_feature_collection
GdfToFeatureCollection(gdf) ==
    [i \in 1..Len(gdf) |-> gdf[i].f]

\* the eroded footprints g.buffer(-edge_buffer_m) are both non-empty and
\* intersect
ErodedIntersect(f, g, cfg) ==
    /\ f.hi - f.lo > cfg.edge_buffer_x2
    /\ g.hi - g.lo > cfg.edge_buffer_x2
    /\ CommonLength(f, g) >= cfg.edge_buffer_x2

\* _is_significant_overlap
IsSignificantOverlap(f, g, cfg) ==
    LET inter == IntersectionArea(f, g)
        smaller == Min2(GeomArea(f), GeomArea(g))
    IN  /\ cfg.edge_buffer_x2 > 0 => ErodedIntersect(f, g, cfg)
        /\ inter > 0
        /\ smaller > 0
        /\ inter * 100 >= cfg.overlap_threshold * smaller

\* the positions the grouping loop adds to the group seeded at i
OverlapMembers(gdf, cfg, i, visited) ==
    {j \in 1..Len(gdf) : /\ j # i
                         /\ j \notin visited
                         /\ IsSignificantOverlap(gdf[i].f, gdf[j].f, cfg)}

RECURSIVE DedupGroups(_, _, _, _)
\* one round of the grouping loop for the unvisited position i: a seed
\* without overlapping rows forms no group
GroupFrom(gdf, cfg, i, visited, members) ==
    IF members = {} THEN DedupGroups(gdf, cfg, i + 1, visited \cup {i})
    ELSE <<[seed |-> i, members |-> members]>>
         \o DedupGroups(gdf, cfg, i + 1, visited \cup {i} \cup members)

\* the grouping loop of _deduplicate_within_source over positions i..n
\* (1-based here); each group lists positions, seed first
DedupGroups(gdf, cfg, i, visited) ==
    IF i > Len(gdf) THEN <<>>
    ELSE IF i \in visited THEN DedupGroups(gdf, cfg, i + 1, visited)
    ELSE GroupFrom(gdf, cfg, i, visited, OverlapMembers(gdf, cfg, i, visited))

\* the column idxmax runs over: sub["confidence"] or sub.geometry.area
RowKey(f, column) == IF column = "confidence" THEN f.confidence ELSE GeomArea(f)

\* Series.idxmax over the rows of a group: the index LABEL of the first
\* row holding the maximum (rows in group order: seed, then the others)
IdxMax(gdf, group, column) ==
    LET pos == {group.seed} \cup group.members
        best == CHOOSE p \in pos :
                   /\ \A q \in pos : RowKey(gdf[q].f, column) <= RowKey(gdf[p].f, column)
                   /\ \A q \in pos :
                        RowKey(gdf[q].f, column) = RowKey(gdf[p].f, column) =>
                           (p = group.seed \/ (q # group.seed /\ p <= q))
    IN  gdf[best].label

\* the per-group resolution: the set added to to_drop.  group holds
\* POSITIONS (0-based in the source), keep_idx is an index LABEL.
GroupDrop(gdf, group, cfg) ==
    LET positions == {p - 1 : p \in {group.seed} \cup group.members}
    IN  IF cfg.strategy = "highest_confidence"
        THEN positions \ {IdxMax(gdf, group, "confidence")}
        ELSE IF cfg.strategy = "union" THEN positions
        ELSE positions \ {IdxMax(gdf, group, "area")}

\* the union feature of a group: first member's properties, maximum
\* confidence, union geometry
UnionRow(gdf, group) ==
    LET pos == {group.seed} \cup group.members
        first == gdf[group.seed].f
        top == CHOOSE c \in {gdf[p].f.confidence : p \in pos} :
                  \A p \in pos : gdf[p].f.confidence <= c
        left == CHOOSE l \in {gdf[p].f.lo : p \in pos} :
                  \A p \in pos : l <= gdf[p].f.lo
        right == CHOOSE r \in {gdf[p].f.hi : p \in pos} :
                  \A p \in pos : gdf[p].f.hi <= r
    IN  [first EXCEPT !.confidence = top, !.lo = left, !.hi = right]

\* to_drop: what the groups' resolutions add up to
ToDrop(gdf, groups, cfg) ==
    UNION {GroupDrop(gdf, groups[k], cfg) : k \in 1..Len(groups)}

\* table.index
Labels(gdf) == {gdf[i].label : i \in 1..Len(gdf)}

\* the rows left by gdf.drop(index=to_drop), and for the union strategy
\* the union rows appended with the index renumbered (ignore_index=True)
DropRows(gdf, groups, cfg, to_drop) ==
    IF cfg.strategy = "union"
    THEN [i \in 1..(Len(gdf) - Cardinality(to_drop) + Len(groups)) |->
             [label |-> i - 1,
              f |-> (SelectRows(gdf, {r \in SeqRange(gdf) : r.label \notin to_drop})
                     \o [k \in 1..Len(groups) |->
                            [label |-> 0, f |-> UnionRow(gdf, groups[k])]])[i].f]]
    ELSE SelectRows(gdf, {r \in SeqRange(gdf) : r.label \notin to_drop})

\* gdf.drop(index=to_drop) raises KeyError when a member of to_drop is no
\* index label of the table
ResolveGroups(gdf, groups, cfg, to_drop) ==
    IF groups = <<>> THEN [raised |-> FALSE, gdf |-> gdf]
    ELSE IF ~(to_drop \subseteq Labels(gdf)) THEN [raised |-> TRUE, gdf |-> gdf]
    ELSE [raised |-> FALSE, gdf |-> DropRows(gdf, groups, cfg, to_drop)]

\* the groups with what they drop
DedupWith(gdf, groups, cfg) ==
    ResolveGroups(gdf, groups, cfg, ToDrop(gdf, groups, cfg))

\* _deduplicate_within_source
DeduplicateWithinSource(gdf, cfg) ==
    IF Len(gdf) <= 1 THEN [raised |-> FALSE, gdf |-> gdf]
    ELSE DedupWith(gdf, DedupGroups(gdf, cfg, 1, {}), cfg)

\* the area the minimum-area filter compares: the property when > 0,
\* else the geometric area
EffectiveArea(f) ==
    IF f.area_in_meters > 0 THEN f.area_in_meters ELSE GeomArea(f)

\* the confidence filter of _clean_google
ConfidenceFilter(gdf, cfg) ==
    SelectRows(gdf, {r \in SeqRange(gdf) :
                        r.f.confidence >= cfg.google_min_confidence})

\* the minimum-area filter of _clean_google
AreaFilter(gdf, cfg) ==
    IF cfg.min_area_m2 > 0
    THEN SelectRows(gdf, {r \in SeqRange(gdf) :
                             EffectiveArea(r.f) >= cfg.min_area_m2})
    ELSE gdf

\* the shape-quality filters of _clean_google
ShapeFilter(gdf) == SelectRows(gdf, {r \in SeqRange(gdf) : r.f.shape_ok})

\* _clean_google after deduplication
CleanGoogleDeduped(fc, dedup) ==
    IF dedup.raised THEN [raised |-> TRUE, fc |-> fc]
    ELSE [raised |-> FALSE, fc |-> GdfToFeatureCollection(dedup.gdf)]

\* _clean_google after the confidence and area filters: with nothing
\* left it returns the feature_collection it was given
CleanGoogleFiltered(fc, cfg, area) ==
    IF area = <<>> THEN [raised |-> FALSE, fc |-> fc]
    ELSE CleanGoogleDeduped(fc, DeduplicateWithinSource(ShapeFilter(area), cfg))

\* _clean_google; geo_ok = FALSE stands for a geometry-library error
\* (projection, buffering) raised inside the run
CleanGoogle(fc, cfg, geo_ok) ==
    IF fc = <<>> THEN [raised |-> FALSE, fc |-> fc]
    ELSE IF ~geo_ok THEN [raised |-> TRUE, fc |-> fc]
    ELSE CleanGoogleFiltered(fc, cfg,
             AreaFilter(ConfidenceFilter(FeatureCollectionToGdf(fc), cfg), cfg))

\* _clean_microsoft: pass-through
CleanMicrosoft(fc, cfg) == [raised |-> FALSE, fc |-> fc]

\* the rows of _clean_osm intersecting the AOI
IntersectingAoi(gdf) ==
    SelectRows(gdf, {r \in SeqRange(gdf) : r.f.aoi # "outside"})

\* the optional minimum-area filter of _clean_osm
OsmAreaFilter(gdf, cfg) ==
    IF cfg.osm_min_area_m2 > 0 /\ gdf # <<>>
    THEN SelectRows(gdf, {r \in SeqRange(gdf) :
                             GeomArea(r.f) >= cfg.osm_min_area_m2})
    ELSE gdf

\* _clean_osm: keep the features intersecting the AOI, unclipped
CleanOsm(fc, cfg, geo_ok) ==
    IF fc = <<>> THEN [raised |-> FALSE, fc |-> fc]
    ELSE IF ~geo_ok THEN [raised |-> TRUE, fc |-> fc]
    ELSE [raised |-> FALSE,
          fc |-> GdfToFeatureCollection(
                     OsmAreaFilter(IntersectingAoi(FeatureCollectionToGdf(fc)), cfg))]

\* the per-source cleaner BuildingsCleaner.clean dispatches to
CleanRun(source_type, fc, cfg, geo_ok) ==
    IF source_type = "google_buildings" THEN CleanGoogle(fc, cfg, geo_ok)
    ELSE IF source_type = "microsoft_buildings" THEN CleanMicrosoft(fc, cfg)
    ELSE IF source_type = "osm_buildings" THEN CleanOsm(fc, cfg, geo_ok)
    ELSE [raised |-> FALSE, fc |-> fc]

\* the except clause of both cleaners: a run that raised hands back the
\* original collection
HandBack(fc, run) == IF run.raised THEN fc ELSE run.fc

\* BuildingsCleaner.clean
Clean(source_type, fc, cfg, geo_ok) ==
    HandBack(fc, CleanRun(source_type, fc, cfg, geo_ok))

\* RoadsCleaner.clean_osm_roads: clip to the AOI, drop what falls outside;
\* a feature crossing the boundary is kept with its clipped geometry
ClipRoad(f) == IF f.aoi = "crossing" THEN [f EXCEPT !.aoi = "inside"] ELSE f

\* gpd.clip(gdf, aoi_polygon)
ClipToAoi(gdf) == [i \in 1..Len(gdf) |-> ClipRoad(gdf[i].f)]

CleanOsmRoadsRun(fc, geo_ok) ==
    IF fc = <<>> THEN [raised |-> FALSE, fc |-> fc]
    ELSE IF ~geo_ok THEN [raised |-> TRUE, fc |-> fc]
    ELSE [raised |-> FALSE,
          fc |-> ClipToAoi(IntersectingAoi(FeatureCollectionToGdf(fc)))]

CleanOsmRoads(fc, geo_ok) == HandBack(fc, CleanOsmRoadsRun(fc, geo_ok))

----------------------------------------------------------------------------
(* Providers: what a connector call can bring back *)

\* the features a provider may hold for the AOI, per source
FeaturePool(s) ==
    IF s = "google_buildings" THEN
        <<Feat(1, 50, 40, 50, 0, TRUE, "inside"),
          Feat(2, 90, 0, 10, 0, TRUE, "inside"),
          Feat(3, 80, 5, 17, 0, TRUE, "inside")>>
    ELSE IF s = "microsoft_buildings" THEN
        <<Feat(1, 100, 0, 10, 0, TRUE, "inside"),
          Feat(2, 100, 20, 30, 0, TRUE, "inside")>>
    ELSE IF s = "osm_buildings" THEN
        <<Feat(1, 100, 0, 10, 0, TRUE, "inside"),
          Feat(2, 100, 20, 30, 0, TRUE, "outside")>>
    ELSE IF s = "osm_roads" THEN
        <<Feat(1, 100, 0, 10, 0, TRUE, "inside"),
          Feat(2, 100, 20, 30, 0, TRUE, "outside"),
          Feat(3, 100, 40, 50, 0, TRUE, "crossing")>>
    ELSE
        <<Feat(1, 100, 0, 10, 0, TRUE, "inside")>>

RECURSIVE SubSeqs(_, _)
\* the sub-sequences of sq with at most n elements
SubSeqs(sq, n) ==
    IF sq = <<>> \/ n = 0 THEN {<<>>}
    ELSE {<<Head(sq)>> \o t : t \in SubSeqs(Tail(sq), n - 1)}
         \cup SubSeqs(Tail(sq), n)

\* the feature collections a successful call for s may return
ProviderAnswers == [s \in DataSourceType |-> SubSeqs(FeaturePool(s), MaxFeatures)]

\* an outcome of a provider call: an answer, or an error of the provider
ProviderError == [error |-> "provider"]
Outcomes(s) == [features : ProviderAnswers[s]] \cup {ProviderError}

----------------------------------------------------------------------------
(* Results *)

\* DataSourceResult(status=COMPLETED, stats.count=len(features), data=features)
CompletedResult(source, features) ==
    [source |-> source, status |-> COMPLETED, count |-> Len(features),
     data |-> features, error |-> NoneStr]

\* _create_error_result / the FAILED DataSourceResult of the legacy code
ErrorResult(source, error_message) ==
    [source |-> source, status |-> FAILED, count |-> 0,
     data |-> <<>>, error |-> error_message]

RECURSIVE SumCounts(_, _)
\* sum(results[s].stats.count for s in S)
SumCounts(results, S) ==
    IF S = {} THEN 0
    ELSE LET x == CHOOSE y \in S : TRUE
         IN  results[x].count + SumCounts(results, S \ {x})

\* sum(result.stats.count for result in results.values())
TotalFeatures(results) == SumCounts(results, DOMAIN results)

\* sum(1 for result in results.values() if result.status == COMPLETED)
SuccessfulSources(results) ==
    Cardinality({s \in DOMAIN results : results[s].status = COMPLETED})

\* "Determine overall status" of extract_v2.extract_raw_data
OverallStatusAllOrNothing(successful, n) ==
    IF successful = n THEN COMPLETED ELSE FAILED
OverallStatus(successful, n) ==
    IF successful = 0 THEN FAILED
    ELSE IF successful = n THEN COMPLETED
    ELSE PARTIAL

\* "Determine overall status" of FeatureAggregator.process_request
OverallStatusV1(successful, failed) ==
    IF successful = 0 THEN FAILED
    ELSE IF failed = 0 THEN COMPLETED
    ELSE PARTIAL

----------------------------------------------------------------------------
(* Extraction requests *)

IdleRequest ==
    [phase |-> "idle", gen |-> "none", job_id |-> 0, started |-> 0,
     aoi |-> "valid", timeouts |-> << >>, clean |-> FALSE,
     clean_roads |-> FALSE, cleaning_config |-> NoneStr,
     export_format |-> NoneStr, geo_ok |-> TRUE]

NoResponse ==
    [route |-> "none", job |-> 0, at |-> 0, code |-> 0, body |-> Absent]

NewTask ==
    [pc |-> "created", called |-> 0, due |-> 0, delay |-> 0, finished |-> 0,
     result |-> Absent]

\* the source selections of a request: the named sources N, of which E
\* are enabled, with a timeout for each enabled one (0: the field is left
\* out); at most one named source is disabled
NamedSets(sources) == {e \in SUBSET sources : Cardinality(e) <= MaxSources}

Selections(sources, timeouts) ==
    UNION {{[s \in p[1] |->
                [enabled |-> s \in p[2],
                 timeout |-> IF s \in p[2] THEN t[s] ELSE 0]] :
               t \in [p[2] -> timeouts]} :
           p \in {q \in NamedSets(sources) \X NamedSets(sources) :
                     q[2] \subseteq q[1] /\ Cardinality(q[1] \ q[2]) <= 1}}

\* the requests a client may send: generation, AOI, source selections, the
\* cleaning flags and the inline export format (clean_roads exists in the
\* current generation only)
Requests(gens, aois, sources, timeouts, flags, exports) ==
    {[gen |-> g, aoi |-> a, sources |-> sel,
      clean |-> c, clean_roads |-> (g = "v2" /\ cr),
      cleaning_config |-> NoneStr, export_format |-> x] :
        g \in gens, a \in aois, c \in flags, cr \in flags, x \in exports,
        sel \in Selections(sources, timeouts)}

\* if selection.enabled / _get_enabled_sources
Enabled(r) == {s \in DOMAIN r.sources : r.sources[s].enabled}

\* 'timeout': selection.timeout or 30 (DataSourceConfig.timeout defaults
\* to 30 in the legacy schema)
TimeoutOf(selection) ==
    IF selection.timeout = 0 THEN DefaultTimeout ELSE selection.timeout

\* validate_aoi_polygon accepts the polygon (well-formed, within the
\* area limit)
ValidAoi(aoi) == aoi = "valid"

\* the connectors the legacy loop has constructed when a constructor
\* raises: those before the first source of the satellite provider, and it
FailedBuilds(enabled) ==
    {B \in SUBSET enabled : Cardinality(B \cap GEESources) = 1}

RouteOf(gen) == IF gen = "v2" THEN "extract_v2" ELSE "extract_v1"

\* ValidationError: HTTP 400 in extract_v2; FeatureAggregator.process_request
\* wraps every exception, this one included, in ProcessingError: HTTP 500
ValidationCode(gen) == IF gen = "v2" THEN 400 ELSE 500

\* POST /api/v2/extract and POST /api/v1/extract-features up to the point
\* where the source tasks are created and gathered
Submit(r) ==
    /\ req.phase = "idle"
    /\ nextJob < MaxJobs
    /\ LET job_id == nextJob + 1
           enabled == Enabled(r)
           running == [IdleRequest EXCEPT
                          !.phase = "gather", !.gen = r.gen,
                          !.job_id = job_id, !.started = now, !.aoi = r.aoi,
                          !.timeouts = [s \in enabled |-> TimeoutOf(r.sources[s])],
                          !.clean = r.clean, !.clean_roads = r.clean_roads,
                          !.cleaning_config = r.cleaning_config,
                          !.export_format = r.export_format]
           answer(code) == [route |-> RouteOf(r.gen), job |-> job_id,
                            at |-> now, code |-> code, body |-> Absent]
       IN  /\ nextJob' = job_id
           /\ IF ~ValidAoi(r.aoi) \/ enabled = {}
              THEN /\ req' = [running EXCEPT !.phase = "answered"]
                   /\ tasks' = << >>
                   /\ built' = {}
                   /\ http' = answer(ValidationCode(r.gen))
              ELSE IF r.gen = "v1" /\ ~gee_ok /\ enabled \cap GEESources # {}
              THEN /\ req' = [running EXCEPT !.phase = "answered"]
                   /\ tasks' = << >>
                   /\ built' \in FailedBuilds(enabled)
                   /\ http' = answer(500)
              ELSE /\ req' = running
                   /\ tasks' = [s \in enabled |-> NewTask]
                   /\ built' = IF r.gen = "v1" THEN enabled ELSE {}
                   /\ http' = http
    /\ UNCHANGED <<now, stores, gee_ok, debug, startup, limiter, designs, call, ticks, hist>>

\* the DataSourceResult a finished connector call turns into
ResultOf(source, out) ==
    IF out = ProviderError THEN ErrorResult(source, "DataSourceError")
    ELSE CompletedResult(source, out.features)

\* _process_single_source up to its first suspension.  Legacy: the call
\* connector.extract_with_timeout raises AttributeError (no connector
\* class derives from BaseDataSource).  Current: create_connector, then
\* extract_raw_features; the satellite connector runs its blocking
\* getInfo() calls to the end (d seconds) without yielding, the map
\* connector posts its query and suspends.
StartTask(s, d, out) ==
    /\ req.phase = "gather"
    /\ s \in DOMAIN tasks
    /\ tasks[s].pc = "created"
    /\ LET done(t, delay, result) ==
               [pc |-> "done", called |-> now, due |-> t, delay |-> delay,
                finished |-> t, result |-> result]
       IN  IF req.gen = "v1"
           THEN /\ tasks' = [tasks EXCEPT ![s] =
                                done(now, 0, ErrorResult(s, "AttributeError"))]
                /\ UNCHANGED <<now, built>>
           ELSE IF s \in GEESources /\ ~gee_ok
           THEN /\ tasks' = [tasks EXCEPT ![s] =
                                done(now, 0, ErrorResult(s, "ProcessingError"))]
                /\ built' = built \cup {s}
                /\ now' = now
           ELSE IF s \in GEESources
           THEN /\ tasks' = [tasks EXCEPT ![s] = done(now + d, d, ResultOf(s, out))]
                /\ built' = built \cup {s}
                /\ now' = now + d
           ELSE /\ tasks' = [tasks EXCEPT ![s] =
                                [pc |-> "awaiting", called |-> now,
                                 due |-> now + Min2(d, OverpassTimeout + ClientHeadroom),
                                 delay |-> d, finished |-> 0, result |-> Absent]]
                /\ built' = built \cup {s}
                /\ now' = now
    /\ UNCHANGED <<stores, nextJob, gee_ok, debug, startup, limiter, designs, call, req, http, ticks, hist>>

\* the map connector's task resumes: the answer arrived, or the client
\* session's total timeout (overpass_timeout + 5) ran out
ResumeTask(s, out) ==
    /\ req.phase = "gather"
    /\ s \in DOMAIN tasks
    /\ tasks[s].pc = "awaiting"
    /\ \A q \in DOMAIN tasks : tasks[q].pc # "created"
    /\ now >= tasks[s].due
    /\ tasks' = [tasks EXCEPT ![s] =
                    [pc |-> "done", called |-> tasks[s].called,
                     due |-> tasks[s].due, delay |-> tasks[s].delay,
                     finished |-> now,
                     result |-> IF tasks[s].delay > OverpassTimeout + ClientHeadroom
                                THEN ErrorResult(s, "TimeoutError")
                                ELSE ResultOf(s, out)]]
    /\ UNCHANGED <<now, stores, nextJob, gee_ok, debug, startup, limiter, designs, call, req, built, http, ticks, hist>>

\* the event loop has nothing to run: it sleeps until the first pending
\* answer or timeout
AdvanceClock ==
    /\ req.phase = "gather"
    /\ \A q \in DOMAIN tasks : tasks[q].pc # "created"
    /\ LET awaiting == {q \in DOMAIN tasks : tasks[q].pc = "awaiting"}
       IN  /\ awaiting # {}
           /\ \A q \in awaiting : tasks[q].due > now
           /\ now' = CHOOSE t \in {tasks[q].due : q \in awaiting} :
                        \A q \in awaiting : t <= tasks[q].due
    /\ UNCHANGED <<stores, nextJob, gee_ok, debug, startup, limiter, designs, call, req, tasks, built, http, ticks, hist>>

----------------------------------------------------------------------------
(* The rest of the extraction handlers *)

\* result.data = cleaned_fc; result.stats.count = len(cleaned_fc.features)
WithCollectionStaleCount(result, fc) == [result EXCEPT !.data = fc]
WithCollection(result, fc) == [result EXCEPT !.data = fc, !.count = Len(fc)]

\* the building cleaning loop of both routes (an empty collection goes
\* through the cleaner unchanged, so the truthiness test on result.data
\* makes no difference)
CleanBuildings(results, cfg, geo_ok) ==
    [s \in DOMAIN results |->
        IF s \in BuildingSources
        THEN WithCollection(results[s], Clean(s, results[s].data, cfg, geo_ok))
        ELSE results[s]]

\* the roads clipping loop of extract_v2
ClipRoads(results, geo_ok) ==
    [s \in DOMAIN results |->
        IF s = "osm_roads"
        THEN WithCollection(results[s], CleanOsmRoads(results[s].data, geo_ok))
        ELSE results[s]]

\* the results of the gathered tasks
Gathered == [s \in DOMAIN tasks |-> tasks[s].result]

\* the building cleaning step of extract_v2
BuildingsStepV2(r, geo_ok) ==
    IF r.clean
    THEN CleanBuildings(Gathered, CleanerConfigV2(r.cleaning_config), geo_ok)
    ELSE Gathered

\* the results of extract_v2 after both optional cleaning steps
ResultsV2(r, geo_ok) ==
    IF r.clean_roads THEN ClipRoads(BuildingsStepV2(r, geo_ok), geo_ok)
    ELSE BuildingsStepV2(r, geo_ok)

\* "Calculate overall statistics", "Determine overall status" and the
\* RawDataResponse of extract_v2, with the inline export when asked for
ResponseV2(r, results) ==
    [job_id |-> r.job_id,
     status |-> OverallStatus(SuccessfulSources(results), Cardinality(DOMAIN results)),
     results |-> results,
     total_features |-> TotalFeatures(results),
     successful_sources |-> SuccessfulSources(results),
     export_data |-> IF r.export_format # NoneStr THEN "bytes" ELSE NoneStr]

\* extract_v2.extract_raw_data after process_extraction_request returned
AggregateV2(r, geo_ok) == ResponseV2(r, ResultsV2(r, geo_ok))

\* the cleaning step of extract.extract_features: results replaced and
\* total_features recomputed
CleanResponseV1(response, cfg, geo_ok) ==
    [response EXCEPT
        !.results = CleanBuildings(@, cfg, geo_ok),
        !.total_features = TotalFeatures(CleanBuildings(response.results, cfg, geo_ok))]

\* FeatureAggregator.process_request after the gather; a failing inline
\* conversion leaves the response without data
ResponseV1(r, results, export_ok) ==
    [job_id |-> r.job_id,
     status |-> OverallStatusV1(SuccessfulSources(results),
                    Cardinality(DOMAIN results) - SuccessfulSources(results)),
     results |-> results,
     total_features |-> TotalFeatures(results),
     successful_sources |-> SuccessfulSources(results),
     export_data |-> IF r.export_format # NoneStr /\ export_ok
                     THEN "bytes" ELSE NoneStr]

\* extract.extract_features after process_request returned
AggregateV1(r, geo_ok, export_ok) ==
    IF r.clean
    THEN CleanResponseV1(ResponseV1(r, Gathered, export_ok),
                         CleanerConfigV1(r.cleaning_config), geo_ok)
    ELSE ResponseV1(r, Gathered, export_ok)

\* detail of the HTTPException raised by the catch-all of extract_raw_data
ExtractionFailedText == "An unexpected error occurred during data extraction"

\* the response leaves: the current generation stores the job first (a
\* failed inline export has raised before that: HTTP 500, nothing stored);
\* the legacy route stores into an InMemoryJobStorage it creates for the
\* call and drops, so no store of the process changes
Respond(response, export_ok) ==
    IF req.gen = "v2" /\ ~export_ok
    THEN /\ http' = [route |-> RouteOf(req.gen), job |-> req.job_id,
                     at |-> now, code |-> 500,
                     body |-> [detail |-> <<ExtractionFailedText>>]]
         /\ UNCHANGED <<stores, hist>>
    ELSE IF req.gen = "v2"
    THEN /\ http' = [route |-> RouteOf(req.gen), job |-> req.job_id,
                     at |-> now, code |-> 200, body |-> response]
         /\ stores' = [stores EXCEPT !["extract_v2"] =
                          StoreJobResult(@, now, req.job_id, response, DefaultTtl)]
         /\ hist' = [hist EXCEPT !.stored["extract_v2"][req.job_id] =
                        [at |-> now, ttl |-> DefaultTtl, data |-> response]]
    ELSE /\ http' = [route |-> RouteOf(req.gen), job |-> req.job_id,
                     at |-> now, code |-> 200, body |-> response]
         /\ UNCHANGED <<stores, hist>>

\* the handler once every source task is done: cleaning, totals, status,
\* inline export, storing the job, the response.  geo_ok: the geometry
\* library works in the cleaners; export_ok: the exporter works.
Finish(geo_ok, export_ok) ==
    /\ req.phase = "gather"
    /\ \A s \in DOMAIN tasks : tasks[s].pc = "done"
    /\ geo_ok \/ req.clean \/ req.clean_roads
    /\ export_ok \/ req.export_format # NoneStr
    /\ req' = [req EXCEPT !.phase = "answered", !.geo_ok = geo_ok]
    /\ Respond(IF req.gen = "v2" THEN AggregateV2(req, geo_ok)
               ELSE AggregateV1(req, geo_ok, export_ok), export_ok)
    /\ UNCHANGED <<now, nextJob, gee_ok, debug, startup, limiter, designs, call, tasks, built, ticks>>

\* the server is ready for the next extraction request
NextRequest ==
    /\ req.phase = "answered"
    /\ req' = IdleRequest
    /\ tasks' = << >>
    /\ built' = {}
    /\ UNCHANGED <<now, stores, nextJob, gee_ok, debug, startup, limiter, designs, call, http, ticks, hist>>

----------------------------------------------------------------------------
(* Job routes of the current generation (download_v2) *)

NoLookup == [inst |-> "none", job |-> 0, at |-> 0, value |-> Absent, rec |-> Absent]

\* a direct lookup in store inst: what get_job_result returned, and what
\* the history holds for the job at that moment; the history keeps the
\* lookup until the next call or clock advance
LookupOf(inst, job_id) ==
    [inst |-> inst, job |-> job_id, at |-> now,
     value |-> GetJobResultValue(stores[inst], now, job_id),
     rec |-> hist.stored[inst][job_id]]

\* GET /api/v2/download/{job_id}/{format}
DownloadData(job_id, export_ok) ==
    /\ req.phase # "gather"
    /\ LET value == GetJobResultValue(stores["download_v2"], now, job_id)
       IN  /\ export_ok \/ value # Absent
           /\ http' = [route |-> "download_v2", job |-> job_id, at |-> now,
                       code |-> IF value = Absent THEN 404
                                ELSE IF export_ok THEN 200 ELSE 500,
                       body |-> Absent]
    /\ stores' = [stores EXCEPT !["download_v2"] = GetJobResultStore(@, now, job_id)]
    /\ UNCHANGED <<now, nextJob, gee_ok, debug, startup, limiter, designs, call, req, tasks, built, ticks, hist>>

\* GET /api/v2/job/{job_id}/status
GetJobStatus(job_id) ==
    /\ req.phase # "gather"
    /\ LET value == GetJobResultValue(stores["download_v2"], now, job_id)
       IN  http' = [route |-> "status_v2", job |-> job_id, at |-> now,
                    code |-> IF value = Absent THEN 404 ELSE 200,
                    body |-> value]
    /\ stores' = [stores EXCEPT !["download_v2"] = GetJobResultStore(@, now, job_id)]
    /\ UNCHANGED <<now, nextJob, gee_ok, debug, startup, limiter, designs, call, req, tasks, built, ticks, hist>>

\* DELETE /api/v2/job/{job_id}
CleanupJob(job_id) ==
    /\ req.phase # "gather"
    /\ stores' = [stores EXCEPT !["download_v2"] = DeleteJobResult(@, job_id)]
    /\ http' = [route |-> "cleanup_v2", job |-> job_id, at |-> now,
                code |-> 200, body |-> Absent]
    /\ hist' = [hist EXCEPT !.deleted = @ \cup {job_id},
                            !.stored["download_v2"][job_id] = Absent]
    /\ UNCHANGED <<now, nextJob, gee_ok, debug, startup, limiter, designs, call, req, tasks, built, ticks>>

\* time passes while the server is idle
Tick(d) ==
    /\ req.phase # "gather"
    /\ ticks < MaxTicks
    /\ now' = now + d
    /\ ticks' = ticks + 1
    /\ hist' = [hist EXCEPT !.lookup = NoLookup]
    /\ UNCHANGED <<stores, nextJob, gee_ok, debug, startup, limiter, designs, call, req, tasks, built, http>>

----------------------------------------------------------------------------
(* Error responses and the design routes.  A text is a sequence of pieces; *)
(* RawText is str(e) of an exception raised by a library or the runtime.   *)

RawText == "raw exception text"

\* ValidationError(f"Failed to parse design file: {str(e)}").message
ParseFailedMessage(text) == <<"Failed to parse design file: ">> \o text

\* raise HTTPException(status_code, detail): the answer {"detail": detail}
HttpError(route, status_code, detail) ==
    [route |-> route, job |-> 0, at |-> now, code |-> status_code,
     body |-> [detail |-> detail]]

\* main.global_exception_handler: details = str(exc) if settings.debug
\* else None
GlobalExceptionHandler(route, text) ==
    [route |-> route, job |-> 0, at |-> now, code |-> 500,
     body |-> [error_code |-> "INTERNAL_SERVER_ERROR",
               message |-> <<"An unexpected error occurred. Please try again later.">>,
               details |-> IF debug THEN text ELSE <<>>]]

Answer200(route) ==
    [route |-> route, job |-> 0, at |-> now, code |-> 200, body |-> Absent]

\* POST /api/v2/designs/upload.  storage_ok: DesignStorage() of the
\* Depends(get_design_storage) dependency could create its directory (it
\* runs before the handler's try block); file_ok: the parser could read
\* the uploaded file; written: how many of the three documents
\* (metadata.json, layers.json, all_features.json, in this order)
\* DesignStorage.store_design wrote before a statement of its try block
\* raised, 3 when none did.  store_design answers False then, and the
\* handler does not read the answer.
UploadDesignFile(storage_ok, file_ok, written) ==
    /\ req.phase # "gather"
    /\ Len(designs) < MaxDesigns
    /\ designs' = IF storage_ok /\ file_ok
                  THEN Append(designs, [docs |-> written, answered |-> "processed"])
                  ELSE designs
    /\ http' = IF ~storage_ok THEN GlobalExceptionHandler("design_upload", <<RawText>>)
               ELSE IF ~file_ok
               THEN HttpError("design_upload", 500,
                        <<"Failed to process design file: ">>
                        \o ParseFailedMessage(<<RawText>>))
               ELSE Answer200("design_upload")
    /\ UNCHANGED <<now, stores, nextJob, gee_ok, debug, startup, limiter, call, req,
                   tasks, built, ticks, hist>>

\* GET /api/v2/designs/metadata/{design_id}.  The storage holds the design
\* when its metadata.json was written; body_ok: no statement of the try
\* block raised
GetDesignMetadata(storage_ok, design_id, body_ok) ==
    LET exists == design_id \in DOMAIN designs /\ designs[design_id].docs >= 1
        answer ==
            IF ~storage_ok THEN GlobalExceptionHandler("design_metadata", <<RawText>>)
            ELSE IF ~body_ok
            THEN HttpError("design_metadata", 500,
                     <<"Failed to retrieve design metadata: ", RawText>>)
            ELSE IF ~exists
            THEN HttpError("design_metadata", 404, <<"Design ", "design_id", " not found">>)
            ELSE Answer200("design_metadata")
    IN  /\ req.phase # "gather"
        /\ http' = [answer EXCEPT !.job = design_id]
        /\ UNCHANGED <<now, stores, nextJob, gee_ok, debug, startup, limiter,
                       designs, call, req, tasks, built, ticks, hist>>

\* POST /api/v2/designs/render for design_id.  get_design_metadata answers
\* None without metadata.json, get_design_layers without layers.json;
\* body_ok: no other statement of the try block raised
RenderDesign(design_id, body_ok) ==
    LET docs == IF design_id \in DOMAIN designs THEN designs[design_id].docs ELSE 0
    IN  /\ req.phase # "gather"
        /\ http' = IF docs < 1
                   THEN [HttpError("design_render", 404,
                                   <<"Design ", "design_id", " not found">>)
                            EXCEPT !.job = design_id]
                   ELSE IF docs < 2
                   THEN [HttpError("design_render", 404,
                                   <<"No layers found for design ", "design_id">>)
                            EXCEPT !.job = design_id]
                   ELSE IF ~body_ok
                   THEN [HttpError("design_render", 500,
                                   <<"Failed to render design: ", RawText>>)
                            EXCEPT !.job = design_id]
                   ELSE [Answer200("design_render") EXCEPT !.job = design_id]
        /\ UNCHANGED <<now, stores, nextJob, gee_ok, debug, startup, limiter,
                       designs, call, req, tasks, built, ticks, hist>>

----------------------------------------------------------------------------
(* Direct calls of the InMemoryJobStorage interface *)

StoreCall(inst, job_id, result, ttl_seconds) ==
    /\ stores' = [stores EXCEPT ![inst] =
                     StoreJobResult(@, now, job_id, result, ttl_seconds)]
    /\ hist' = [hist EXCEPT !.stored[inst][job_id] =
                                [at |-> now, ttl |-> ttl_seconds, data |-> result],
                            !.lookup = NoLookup]
    /\ UNCHANGED <<now, nextJob, gee_ok, debug, startup, limiter, designs, call, req, tasks, built, http, ticks>>

GetCall(inst, job_id) ==
    /\ stores' = [stores EXCEPT ![inst] = GetJobResultStore(@, now, job_id)]
    /\ hist' = [hist EXCEPT !.lookup = LookupOf(inst, job_id)]
    /\ UNCHANGED <<now, nextJob, gee_ok, debug, startup, limiter, designs, call, req, tasks, built, http, ticks>>

DeleteCall(inst, job_id) ==
    /\ stores' = [stores EXCEPT ![inst] = DeleteJobResult(@, job_id)]
    /\ hist' = [hist EXCEPT !.stored[inst][job_id] = Absent,
                            !.lookup = NoLookup]
    /\ UNCHANGED <<now, nextJob, gee_ok, debug, startup, limiter, designs, call, req, tasks, built, http, ticks>>

----------------------------------------------------------------------------
(* Exporters, called directly: each call starts from the state in which    *)
(* no call has been made.  A property key is a sequence of pieces, a       *)
(* separator (space or hyphen) being a piece of its own; a property dict   *)
(* is a function from keys to values (None and {} are both the empty       *)
(* function); an exported                                                  *)
(* aggregate maps each of its sources to a status and a list of features.  *)

\* dict order of response.results
ExportSources == <<"google_buildings", "osm_roads">>

PropertyKeys ==
    {<<"description">>, <<"Description">>, <<"atlas_source">>,
     <<"road", " ", "name", "-", "en">>}

\* the aggregates handed to an exporter: the feature lists of a source
\* have every property dict with up to two of the keys
ExportResponses ==
    UNION {[S -> [status : {COMPLETED},
                  features :
                      UNION {[1..n -> [properties :
                                          UNION {[K -> {"v"}] :
                                                    K \in {X \in SUBSET PropertyKeys :
                                                             Cardinality(X) <= 2}}]] :
                                n \in 0..MaxExportFeatures}]] :
              S \in SUBSET SeqRange(ExportSources) \ {{}}}

\* d[k] = v
WithKey(d, k, v) == [x \in DOMAIN d \cup {k} |-> IF x = k THEN v ELSE d[x]]

\* d.pop(k, None)
WithoutKey(d, k) == [x \in DOMAIN d \ {k} |-> d[x]]

\* the properties a GeoJSON encoder gives an output feature.  The legacy
\* exporter pops 'description' and adds atlas_source and
\* atlas_source_status; the export service pops 'description' and adds
\* atlas_source and atlas_status; the inline converter adds atlas_source
\* and atlas_source_status and pops nothing.
EncodedProperties(encoder, d, source, status) ==
    IF encoder = "GeoJSONExporter.export"
    THEN WithKey(WithKey(WithoutKey(d, <<"description">>),
                         <<"atlas_source">>, source),
                 <<"atlas_source_status">>, status)
    ELSE IF encoder = "RawDataExportService._export_geojson"
    THEN WithKey(WithKey(WithoutKey(d, <<"description">>),
                         <<"atlas_source">>, source),
                 <<"atlas_status">>, status)
    ELSE WithKey(WithKey(d, <<"atlas_source">>, source),
                 <<"atlas_source_status">>, status)

RECURSIVE EncodedFeatures(_, _, _)
\* the "features" list of the merged GeoJSON: the sources in dict order
EncodedFeatures(encoder, results, order) ==
    IF order = <<>> THEN <<>>
    ELSE IF Head(order) \in DOMAIN results
    THEN [i \in 1..Len(results[Head(order)].features) |->
            [properties |->
                EncodedProperties(encoder, results[Head(order)].features[i].properties,
                                  Head(order), results[Head(order)].status)]]
         \o EncodedFeatures(encoder, results, Tail(order))
    ELSE EncodedFeatures(encoder, results, Tail(order))

GeoJSONEncoders ==
    {"GeoJSONExporter.export", "RawDataExportService._export_geojson",
     "FormatConverter._convert_to_geojson"}

\* a GeoJSON encoder is run on an aggregate
EncodeGeoJSON(encoder, results) ==
    /\ call = NoCall
    /\ call' = [fn |-> encoder, arg |-> results,
                out |-> [features |-> EncodedFeatures(encoder, results, ExportSources)]]
    /\ UNCHANGED <<now, stores, nextJob, gee_ok, debug, startup, limiter, designs, req, tasks, built, http,
                   ticks, hist>>

\* str(key).lower() == 'description'
IsDescription(key) == key \in {<<"description">>, <<"Description">>}

\* str(key).replace(' ', '_').replace('-', '_')
CleanKey(key) ==
    [i \in 1..Len(key) |-> IF key[i] \in {" ", "-"} THEN "_" ELSE key[i]]

\* the keys of feature_data before the properties are added
BaseColumns(encoder) ==
    IF encoder = "CSVExporter.export"
    THEN {<<"atlas_source">>, <<"atlas_source_status">>, <<"feature_id">>,
          <<"geometry_type">>, <<"geometry_wkt">>}
    ELSE {<<"atlas_source">>, <<"atlas_status">>, <<"geometry_type">>,
          <<"geometry_wkt">>}

\* feature_data.keys() of one feature
FeatureColumns(encoder, d) ==
    BaseColumns(encoder) \cup {CleanKey(k) : k \in {x \in DOMAIN d : ~IsDescription(x)}}

\* feature_data of one feature: the attribution and geometry entries
\* first, then one entry per kept property, assigned under its cleaned
\* key whatever the dict already holds under that key
CsvRow(encoder, source, status, d) ==
    [c \in FeatureColumns(encoder, d) |->
        IF \E k \in DOMAIN d : ~IsDescription(k) /\ CleanKey(k) = c
        THEN d[CHOOSE k \in DOMAIN d : ~IsDescription(k) /\ CleanKey(k) = c]
        ELSE IF c = <<"atlas_source">> THEN source
        ELSE IF c \in {<<"atlas_source_status">>, <<"atlas_status">>} THEN status
        ELSE IF c = <<"geometry_type">> THEN "Polygon"
        ELSE IF c = <<"geometry_wkt">> THEN "POLYGON ((...))"
        ELSE NoneStr]

\* all_features of a CSV export: the exported features of every source
AllFeatures(results) ==
    UNION {{<<s, i>> : i \in 1..Len(results[s].features)} : s \in DOMAIN results}

\* the header row of a CSV export (as a set: the claims do not depend on
\* the order of the columns)
CsvHeaderFirstRowOnly(encoder, results) ==
    IF AllFeatures(results) = {}
    THEN (BaseColumns(encoder) \ {<<"feature_id">>, <<"geometry_type">>, <<"geometry_wkt">>})
         \cup {<<"message">>}
    ELSE LET first == CHOOSE r \in AllFeatures(results) : TRUE
         IN  FeatureColumns(encoder, results[first[1]].features[first[2]].properties)
CsvHeader(encoder, results) ==
    IF AllFeatures(results) = {}
    THEN (BaseColumns(encoder) \ {<<"feature_id">>, <<"geometry_type">>, <<"geometry_wkt">>})
         \cup {<<"message">>}
    ELSE UNION {FeatureColumns(encoder, results[r[1]].features[r[2]].properties) :
                   r \in AllFeatures(results)}

CsvEncoders == {"CSVExporter.export", "RawDataExportService._export_csv"}

\* a CSV encoder is run on an aggregate
EncodeCsv(encoder, results) ==
    /\ call = NoCall
    /\ call' = [fn |-> encoder, arg |-> results,
                out |-> [header |-> CsvHeader(encoder, results),
                         rows |-> [r \in AllFeatures(results) |->
                                     CsvRow(encoder, r[1], results[r[1]].status,
                                            results[r[1]].features[r[2]].properties)]]]
    /\ UNCHANGED <<now, stores, nextJob, gee_ok, debug, startup, limiter, designs, req, tasks, built, http,
                   ticks, hist>>

\* the formats (of the six of ExportFormat) ExportManager has an exporter for
ImplementedFormats == {"geojson", "kml", "kmz", "csv"}

\* the instance attributes ExportManager.__init__ sets
ExportManagerAttributes == {"settings", "exporters"}

\* _generate_output_path: <export_temp_dir>/<job_id>/atlas_export_<job_id>.<ext>
OutputPath(job_id, export_format) ==
    [dir |-> job_id, file |-> export_format]

\* ExportManager.export_single_format: the files it leaves and how it
\* ends.  The exporter writes the file; the log call that follows reads
\* self.logger, and so does the one in the except clause.
ExportSingleFormatOutcome(job_id, export_format) ==
    [written |-> IF export_format \in ImplementedFormats
                 THEN {OutputPath(job_id, export_format)} ELSE {},
     returned |-> IF "logger" \in ExportManagerAttributes
                     /\ export_format \in ImplementedFormats
                  THEN OutputPath(job_id, export_format) ELSE Absent,
     raised |-> IF "logger" \notin ExportManagerAttributes THEN "AttributeError"
                ELSE IF export_format \notin ImplementedFormats THEN "ExportError"
                ELSE NoneStr]

ExportSingleFormat(job_id, export_format) ==
    /\ call = NoCall
    /\ call' = [fn |-> "ExportManager.export_single_format",
                arg |-> [job_id |-> job_id, export_format |-> export_format],
                out |-> ExportSingleFormatOutcome(job_id, export_format)]
    /\ UNCHANGED <<now, stores, nextJob, gee_ok, debug, startup, limiter, designs, req, tasks, built, http,
                   ticks, hist>>

\* GET /api/v1/export/{job_id}/{format}.  The handler's try block raises
\* HTTPException(400) for a format without exporter, builds a new, empty
\* InMemoryJobStorage, raises HTTPException(404) when the job is not in
\* it, and otherwise calls the export manager.  An HTTPException is not
\* an ExportError, so whichever exception the block raised reaches the
\* clause `except Exception`, which raises HTTPException(500).
DownloadExport(job_id, export_format) ==
    /\ call = NoCall
    /\ LET raised ==
               IF export_format \notin ImplementedFormats
               THEN HttpError("download_export", 400,
                        <<"Export format '", export_format, "' not supported.">>)
               ELSE IF GetJobResultValue(NewJobStorage(now), now, job_id) = Absent
               THEN HttpError("download_export", 404,
                        <<"Job ", "job_id", " not found or has expired.">>)
               ELSE [route |-> "download_export", job |-> job_id, at |-> now,
                     code |-> 0,
                     body |-> [raised |->
                                  ExportSingleFormatOutcome(job_id, export_format).raised]]
           answer ==
               IF raised.code = 0 /\ raised.body.raised = NoneStr
               THEN Answer200("download_export")
               ELSE IF raised.code = 0 /\ raised.body.raised = "ExportError"
               THEN HttpError("download_export", 500, <<"Export to ", export_format, " failed">>)
               ELSE HttpError("download_export", 500,
                        <<"An unexpected error occurred during export">>)
       IN  /\ http' = answer
           /\ call' = [fn |-> "download_export",
                       arg |-> [job_id |-> job_id, export_format |-> export_format,
                                raised |-> raised.code],
                       out |-> answer]
    /\ UNCHANGED <<now, stores, nextJob, gee_ok, debug, startup, limiter, designs, req, tasks, built, ticks, hist>>

----------------------------------------------------------------------------
(* Polygon validation and the map connector's helpers, called directly.   *)

\* the rings handed to validate_aoi_polygon: the exterior ring, of pairs
\* [lon, lat] in and out of the valid ranges, what
\* Polygon(coords) makes of it ("raises" stands for its ValueError, the
\* only outcome for fewer than three pairs) and the area the projection
\* computes for it
Rings ==
    {r \in [coords : UNION {[1..n -> {<<10, 5>>, <<200, 5>>, <<10, 95>>}] :
                                n \in 2..MaxCoords},
            polygon : {"raises", "invalid", "valid"},
            area_km2 : {0, 50, 150}] :
        Len(r.coords) < 3 => r.polygon = "raises"}

\* the errors the loop over the coordinates appends, in order
RECURSIVE CoordinateErrors(_)
CoordinateErrors(coords) ==
    IF coords = <<>> THEN <<>>
    ELSE (IF Head(coords)[1] < -180 \/ Head(coords)[1] > 180
          THEN <<[error |-> "Invalid longitude", value |-> Head(coords)[1]]>>
          ELSE <<>>)
         \o (IF Head(coords)[2] < -90 \/ Head(coords)[2] > 90
             THEN <<[error |-> "Invalid latitude", value |-> Head(coords)[2]]>>
             ELSE <<>>)
         \o CoordinateErrors(Tail(coords))

\* validate_aoi_polygon(aoi, max_area_km2): (is_valid, area_km2, errors)
validate_aoi_polygon(ring, max_area_km2) ==
    IF ring.polygon = "raises"
    THEN <<FALSE, 0, <<[error |-> "Error validating polygon"]>> >>
    ELSE IF ring.polygon = "invalid"
    THEN <<FALSE, 0, <<[error |-> "Invalid polygon geometry"]>> >>
    ELSE IF ring.coords[1] # ring.coords[Len(ring.coords)]
    THEN <<FALSE, 0, <<[error |-> "Polygon must be closed"]>> >>
    ELSE IF Len(ring.coords) < 4
    THEN <<FALSE, 0, <<[error |-> "Polygon must have at least 4 coordinate pairs"]>> >>
    ELSE IF ring.area_km2 <= 0
    THEN <<FALSE, ring.area_km2,
           <<[error |-> "Polygon area must be greater than 0"]>> >>
    ELSE IF ring.area_km2 > max_area_km2
    THEN <<FALSE, ring.area_km2, <<[error |-> "Polygon area exceeds maximum allowed"]>> >>
    ELSE IF CoordinateErrors(ring.coords) # <<>>
    THEN <<FALSE, ring.area_km2, CoordinateErrors(ring.coords)>>
    ELSE <<TRUE, ring.area_km2, <<>> >>

\* validate_aoi_polygon is called with the configured maximum
ValidateAoiPolygon(ring) ==
    /\ call = NoCall
    /\ call' = [fn |-> "validate_aoi_polygon", arg |-> ring,
                out |-> validate_aoi_polygon(ring, MaxAoiAreaKm2)]
    /\ UNCHANGED <<now, stores, nextJob, gee_ok, debug, startup, limiter, designs, req, tasks, built, http,
                   ticks, hist>>

\* what the provider does with the one POST of an extraction: an HTTP
\* status, no answer within the client timeout, or a failed connection
\* the exception raised inside the try block of _extract_*_overpass
RaisedInTry(answer) ==
    IF "failure" \in DOMAIN answer
    THEN IF answer.failure = "timeout" THEN "asyncio.TimeoutError"
         ELSE "ClientConnectionError"
    ELSE IF answer.status = 429 THEN "RateLimitError"
    ELSE IF answer.status >= 400 THEN "ClientResponseError"
    ELSE NoneStr

\* the exception _extract_*_overpass ends with: its except clauses are
\* asyncio.TimeoutError and then Exception
RaisedByOverpassQuery(raised) ==
    IF raised = NoneStr THEN NoneStr
    ELSE IF raised = "asyncio.TimeoutError" THEN "TimeoutError"
    ELSE "DataSourceError"

\* extract_features: whatever the query raised is caught by its own
\* `except Exception` and raised again as a DataSourceError
ExtractFeatures(source, answer) ==
    /\ call = NoCall
    /\ call' = [fn |-> "OpenStreetMapConnector.extract_features",
                arg |-> [source |-> source, answer |-> answer],
                out |-> [raised |-> IF RaisedByOverpassQuery(RaisedInTry(answer)) = NoneStr
                                    THEN NoneStr ELSE "DataSourceError"]]
    /\ UNCHANGED <<now, stores, nextJob, gee_ok, debug, startup, limiter, designs, req, tasks, built, http,
                   ticks, hist>>

\* the elements of an Overpass answer: a node carries lat/lon, a way or a
\* relation may carry a geometry array
OsmElements ==
    [type : {"node", "way", "relation"}, id : {7}]
    \cup [type : {"node", "way", "relation"}, id : {7}, lon : {10}, lat : {5}]
    \cup [type : {"node", "way", "relation"}, id : {7},
          geometry : UNION {[1..n -> {[lon |-> 10, lat |-> 5], [lon |-> 20, lat |-> 5],
                                      [lon |-> 10, lat |-> 6]}] :
                               n \in 0..MaxCoords}]

\* the geometry built from the coordinates of a way or a relation
LineOrPolygon(coords) ==
    IF Len(coords) >= 4 /\ coords[1] = coords[Len(coords)]
    THEN [type |-> "Polygon", coordinates |-> <<coords>>]
    ELSE [type |-> "LineString", coordinates |-> coords]

\* _convert_osm_element_to_feature(element): a feature or None.  The
\* relation branch builds its feature and then falls through to the
\* function's last statement, return None.
convert_osm_element_to_feature(element) ==
    IF element.type = "node"
    THEN IF "lat" \in DOMAIN element /\ "lon" \in DOMAIN element
         THEN [id |-> <<"node", element.id>>,
               geometry |-> [type |-> "Point",
                             coordinates |-> <<element.lon, element.lat>>]]
         ELSE Absent
    ELSE IF element.type = "way" /\ "geometry" \in DOMAIN element
    THEN IF Len(element.geometry) < 2 THEN Absent
         ELSE [id |-> <<"way", element.id>>,
               geometry |-> LineOrPolygon([i \in 1..Len(element.geometry) |->
                                             <<element.geometry[i].lon,
                                               element.geometry[i].lat>>])]
    ELSE Absent

ConvertOsmElement(element) ==
    /\ call = NoCall
    /\ call' = [fn |-> "OpenStreetMapConnector._convert_osm_element_to_feature",
                arg |-> element, out |-> convert_osm_element_to_feature(element)]
    /\ UNCHANGED <<now, stores, nextJob, gee_ok, debug, startup, limiter, designs, req, tasks, built, http,
                   ticks, hist>>

----------------------------------------------------------------------------
(* Design files: format detection (core/parsers/design_parser.py) *)

\* A file's content is a sequence of at most MaxChunks chunks of bytes,
\* a filename a sequence of parts.  The chunks:
\*   "PK"          the bytes 0x50 0x4B that open a ZIP local file header
\*   "{fc}"        the JSON object {"type":"FeatureCollection","features":[]}
\*   "{}"          the JSON object {}
\*   "{<kml>}"     the JSON object {"name":"<kml>"}
\*   "<kml>"       the text <kml>
\*   "<KML>"       the text <KML>
\*   "<?xml?>"     the text <?xml version="1.0"?>
\*   " "           a blank
\*   "0xFF"        the byte 0xFF, which no UTF-8 text contains
\*   "abc"         the text abc
MaxChunks == 2

\* DesignParser._detect_format: the format's value, or the error raised
detect_formatContentOnly(filename, content) ==
    LET decodes == \A i \in DOMAIN content : content[i] # "0xFF"
        text == SelectSeq(content, LAMBDA c : c # " ")
        loads == Len(text) = 1 /\ text[1] \in {"{fc}", "{}", "{<kml>}"}
        markup == \E i \in DOMAIN content :
                     content[i] \in {"<kml>", "<KML>", "{<kml>}", "<?xml?>"}
    IN  IF Len(content) >= 1 /\ content[1] = "PK" THEN "kmz"
        ELSE IF decodes /\ loads THEN "geojson"
        ELSE IF decodes /\ markup THEN "kml"
        ELSE "ValidationError"

detect_format(filename, content) ==
    LET filename_lower ==
            [i \in DOMAIN filename |->
                CASE filename[i] = ".KMZ" -> ".kmz"
                  [] filename[i] = ".KML" -> ".kml"
                  [] filename[i] = ".JSON" -> ".json"
                  [] OTHER -> filename[i]]
        suffix == IF Len(filename) = 0 THEN "" ELSE filename_lower[Len(filename)]
        decodes == \A i \in DOMAIN content : content[i] # "0xFF"
        text == SelectSeq(content, LAMBDA c : c # " ")
        loads == Len(text) = 1 /\ text[1] \in {"{fc}", "{}", "{<kml>}"}
        markup == \E i \in DOMAIN content :
                     content[i] \in {"<kml>", "<KML>", "{<kml>}", "<?xml?>"}
    IN  IF suffix = ".kmz" THEN "kmz"
        ELSE IF suffix = ".kml" THEN "kml"
        ELSE IF suffix \in {".geojson", ".json"} THEN "geojson"
        ELSE IF Len(content) >= 1 /\ content[1] = "PK" THEN "kmz"
        ELSE IF decodes /\ loads THEN "geojson"
        ELSE IF decodes /\ markup THEN "kml"
        ELSE "ValidationError"

DetectFormat(filename, content) ==
    /\ call = NoCall
    /\ call' = [fn |-> "DesignParser._detect_format",
                arg |-> [filename |-> filename, content |-> content],
                out |-> detect_format(filename, content)]
    /\ UNCHANGED <<now, stores, nextJob, gee_ok, debug, startup, limiter, designs, req, tasks, built, http,
                   ticks, hist>>

----------------------------------------------------------------------------
(* Microsoft buildings (core/data_sources/google_earth_engine.py) *)

\* GoogleEarthEngineConnector._extract_microsoft_buildings on an AOI with
\* the given centroid.  load tells whether ee.FeatureCollection accepts the
\* Kenya collection id, info whether getInfo answers; found is the number
\* of buildings the provider holds inside the AOI.
ExtractMicrosoftBuildings(lon, lat, load, info, found) ==
    LET region_mapping ==
            <<[region |-> "Kenya", min_lat |-> -5, max_lat |-> 5,
               min_lon |-> 33, max_lon |-> 42],
              [region |-> "Nigeria", min_lat |-> 4, max_lat |-> 14,
               min_lon |-> 2, max_lon |-> 15],
              [region |-> "Tanzania", min_lat |-> -12, max_lat |-> -1,
               min_lon |-> 29, max_lon |-> 41]>>
        matching == {i \in DOMAIN region_mapping :
                        /\ region_mapping[i].min_lat <= lat
                        /\ lat <= region_mapping[i].max_lat
                        /\ region_mapping[i].min_lon <= lon
                        /\ lon <= region_mapping[i].max_lon}
        first == CHOOSE i \in matching : \A k \in matching : i <= k
        \* the collection the buildings are read from, or the error of
        \* _detect_ms_buildings_collection
        collection ==
            IF load = "ok" THEN "Kenya"
            ELSE IF matching # {} THEN region_mapping[first].region
            ELSE "DataSourceError"
        failed(detail) == [status |-> "DataSourceError",
                           source |-> "microsoft_buildings", detail |-> detail]
        \* filterBounds keeps the collection's buildings inside the AOI
        kept == IF matching # {} /\ region_mapping[first].region = collection
                THEN found ELSE 0
    IN  /\ call = NoCall
        /\ call' =
              [fn |-> "GoogleEarthEngineConnector._extract_microsoft_buildings",
               arg |-> [lon |-> lon, lat |-> lat, load |-> load, info |-> info],
               out |-> IF collection = "DataSourceError"
                       THEN failed("Failed to extract Microsoft buildings: Could not determine Microsoft Buildings collection for coordinates")
                       ELSE IF info = "raises"
                       THEN failed("Failed to extract Microsoft buildings: EEException")
                       ELSE [status |-> "ok", collection |-> collection,
                             features |-> kept]]
        /\ UNCHANGED <<now, stores, nextJob, gee_ok, debug, startup, limiter, designs, req, tasks, built,
                       http, ticks, hist>>

----------------------------------------------------------------------------
(* Startup logger (utils/startup_logger.py) *)

\* Next to the fields of StartupLogger, startup records what finish() has
\* rendered (output), the number of reports made through step handles and
\* the latest of them (last).

\* StartupLogger.add_step; the handle returned is the step's position
AddStep(name) ==
    /\ startup.output = "none"
    /\ Len(startup.steps) < MaxSteps
    /\ startup' = [startup EXCEPT
                      !.steps = Append(@, [name |-> name, status |-> "pending",
                                           details |-> << >>, error |-> NoneStr]),
                      !.current_step = Len(startup.steps) + 1 - 1]
    /\ UNCHANGED <<now, stores, nextJob, gee_ok, debug, limiter, designs, req,
                   tasks, built, http, ticks, hist, call>>

\* StartupLogger.complete_step: the logger after the call.  Python indexes
\* steps from 0; an empty string and None are both false.
complete_step(success, details, error) ==
    IF startup.current_step < Len(startup.steps)
    THEN LET i == startup.current_step + 1
             status == IF success THEN "success" ELSE "failed"
             detailed == IF details \notin {NoneStr, ""}
                         THEN Append(startup.steps[i].details, details)
                         ELSE startup.steps[i].details
         IN  IF error \notin {NoneStr, ""}
             THEN [startup EXCEPT !.steps[i].status = status,
                                  !.steps[i].details = detailed,
                                  !.steps[i].error = error,
                                  !.failed = TRUE]
             ELSE [startup EXCEPT !.steps[i].status = status,
                                  !.steps[i].details = detailed]
    ELSE startup

\* StartupStep.success through the handle of step h
\* (StartupLogger.log_step_success)
StepSuccess(h, summary) ==
    /\ startup.output = "none"
    /\ startup.reports < MaxReports
    /\ h \in DOMAIN startup.steps
    /\ startup' = [complete_step(TRUE, summary, NoneStr) EXCEPT
                      !.reports = @ + 1,
                      !.last = [handle |-> h, status |-> "success"]]
    /\ UNCHANGED <<now, stores, nextJob, gee_ok, debug, limiter, designs, req,
                   tasks, built, http, ticks, hist, call>>

\* StartupStep.error through the handle of step h
\* (StartupLogger.log_step_error)
StepError(h, error_msg, details) ==
    /\ startup.output = "none"
    /\ startup.reports < MaxReports
    /\ h \in DOMAIN startup.steps
    /\ startup' = [complete_step(FALSE, details, error_msg) EXCEPT
                      !.reports = @ + 1,
                      !.last = [handle |-> h, status |-> "failed"]]
    /\ UNCHANGED <<now, stores, nextJob, gee_ok, debug, limiter, designs, req,
                   tasks, built, http, ticks, hist, call>>

\* StartupStep.__exit__ of step h's with-block, left by an exception whose
\* str() is exc_val
StepExit(h, exc_val) ==
    /\ startup.output = "none"
    /\ startup.reports < MaxReports
    /\ h \in DOMAIN startup.steps
    /\ startup' = [complete_step(FALSE, NoneStr, exc_val) EXCEPT
                      !.reports = @ + 1,
                      !.last = [handle |-> h, status |-> "failed"]]
    /\ UNCHANGED <<now, stores, nextJob, gee_ok, debug, limiter, designs, req,
                   tasks, built, http, ticks, hist, call>>

\* StartupLogger.finish
FinishStartup ==
    /\ startup.output = "none"
    /\ startup' = [startup EXCEPT
                      !.output = IF startup.failed THEN "verbose" ELSE "compact"]
    /\ UNCHANGED <<now, stores, nextJob, gee_ok, debug, limiter, designs, req,
                   tasks, built, http, ticks, hist, call>>

----------------------------------------------------------------------------
(* Rate limiting of the map connector (core/data_sources/openstreetmap.py) *)

\* One OpenStreetMapConnector instance.  limiter.calls holds the calls of
\* _apply_rate_limit made on it, each either asleep until its wake time or
\* done; limiter.issued the times at which a call returned and its query
\* went out.  Times are those of time.time(): UnixTime + now.

\* _apply_rate_limit up to its await: the call returns at once when the
\* interval has passed, and goes to sleep for the rest of it otherwise
ApplyRateLimit ==
    LET current_time == UnixTime + now
        time_since_last_request == current_time - limiter.last_request_time
    IN  /\ Len(limiter.calls) < MaxQueries
        /\ limiter' =
              IF time_since_last_request < MinRequestInterval
              THEN [limiter EXCEPT
                       !.calls = Append(@,
                           [pc |-> "sleeping",
                            wake |-> current_time + (MinRequestInterval
                                                     - time_since_last_request)])]
              ELSE [last_request_time |-> current_time,
                    calls |-> Append(limiter.calls,
                                     [pc |-> "done", wake |-> current_time]),
                    issued |-> Append(limiter.issued, current_time)]
        /\ UNCHANGED <<now, stores, nextJob, gee_ok, debug, startup, designs, req,
                       tasks, built, http, ticks, hist, call>>

\* _apply_rate_limit after asyncio.sleep has returned
WakeRateLimit(c) ==
    /\ c \in DOMAIN limiter.calls
    /\ limiter.calls[c].pc = "sleeping"
    /\ UnixTime + now >= limiter.calls[c].wake
    /\ limiter' = [last_request_time |-> UnixTime + now,
                   calls |-> [limiter.calls EXCEPT ![c].pc = "done"],
                   issued |-> Append(limiter.issued, UnixTime + now)]
    /\ UNCHANGED <<now, stores, nextJob, gee_ok, debug, startup, designs, req,
                   tasks, built, http, ticks, hist, call>>

----------------------------------------------------------------------------
(* Specifications *)

\* the process after start-up, whatever its settings
Started ==
    /\ now = 0
    /\ stores = [i \in StorageInstances |-> NewJobStorage(0)]
    /\ nextJob = 0
    /\ req = IdleRequest
    /\ tasks = << >>
    /\ built = {}
    /\ http = NoResponse
    /\ ticks = 0
    /\ hist = [stored |-> [i \in StorageInstances |-> [j \in JobIds |-> Absent]],
               deleted |-> {},
               lookup |-> NoLookup]
    /\ call = NoCall
    /\ startup = [steps |-> << >>, current_step |-> 0, failed |-> FALSE,
                  output |-> "none", reports |-> 0,
                  last |-> [handle |-> 0, status |-> "none"]]
    /\ limiter = [last_request_time |-> 0, calls |-> << >>, issued |-> << >>]
    /\ designs = << >>

\* start-up with the default settings (debug: bool = False)
Init ==
    /\ Started
    /\ gee_ok \in BOOLEAN
    /\ debug = FALSE

\* start-up with the default settings and the provider credentials loaded;
\* the components that do not use the credentials are studied from here
InitReady == Started /\ gee_ok = TRUE /\ debug = FALSE

\* One extraction request of either generation, from arrival to answer.
Next ==
    \/ /\ req.phase = "idle"
       /\ \E r \in Requests({"v1", "v2"}, {"valid", "malformed", "oversized"},
                             DataSourceType, {0}, BOOLEAN,
                             {NoneStr, "geojson"}) : Submit(r)
    \/ \E s \in DOMAIN tasks : \E out \in Outcomes(s) : StartTask(s, 1, out)
    \/ \E s \in DOMAIN tasks : \E out \in Outcomes(s) : ResumeTask(s, out)
    \/ AdvanceClock
    \/ \E geo_ok \in BOOLEAN, export_ok \in BOOLEAN : Finish(geo_ok, export_ok)

Spec == Init /\ [][Next]_vars

\* One extraction request with provider answer times and per-source
\* timeouts varied.
TimingOutcomes(s) == {ProviderError, [features |-> SubSeq(FeaturePool(s), 1, 1)]}

NextTiming ==
    \/ /\ req.phase = "idle"
       /\ \E r \in Requests({"v1", "v2"}, {"valid"}, DataSourceType, {0, 5},
                             {FALSE}, {NoneStr}) : Submit(r)
    \/ \E s \in DOMAIN tasks, d \in {1, 10, 40} :
          \E out \in TimingOutcomes(s) : StartTask(s, d, out)
    \/ \E s \in DOMAIN tasks : \E out \in TimingOutcomes(s) : ResumeTask(s, out)
    \/ AdvanceClock
    \/ Finish(TRUE, TRUE)

SpecTiming == Init /\ [][NextTiming]_vars

\* Extraction requests of the current generation followed by the job
\* routes, with time passing in between.
NextJobs ==
    \/ /\ req.phase = "idle"
       /\ \E r \in Requests({"v2"}, {"valid"}, {"osm_landmarks"}, {0}, {FALSE},
                             {NoneStr}) : Submit(r)
    \/ \E s \in DOMAIN tasks : \E out \in Outcomes(s) : StartTask(s, 1, out)
    \/ \E s \in DOMAIN tasks : \E out \in Outcomes(s) : ResumeTask(s, out)
    \/ AdvanceClock
    \/ Finish(TRUE, TRUE)
    \/ NextRequest
    \/ \E j \in JobIds, export_ok \in BOOLEAN : DownloadData(j, export_ok)
    \/ \E j \in JobIds : GetJobStatus(j)
    \/ \E j \in JobIds : CleanupJob(j)
    \/ \E d \in {1, DefaultTtl} : Tick(d)

SpecJobs == Init /\ [][NextJobs]_vars

\* The job store on its own: store, get and delete calls in any order,
\* with time passing in between.
StoreInstance == "extract_v2"

NextStore ==
    \/ \E j \in JobIds, t \in {1, DefaultTtl} :
          StoreCall(StoreInstance, j,
                    [job_id |-> j, status |-> COMPLETED, results |-> << >>,
                     total_features |-> 0, successful_sources |-> 0,
                     export_data |-> NoneStr], t)
    \/ \E j \in JobIds : GetCall(StoreInstance, j)
    \/ \E j \in JobIds : DeleteCall(StoreInstance, j)
    \/ \E d \in {1, DefaultTtl, SecondsPerDay + 1} : Tick(d)

SpecStore == InitReady /\ [][NextStore]_vars

\* Requests that end in an error response, under either debug setting.
InitErrors == Started /\ gee_ok = TRUE /\ debug \in BOOLEAN

NextErrors ==
    \/ /\ req.phase = "idle"
       /\ \E r \in Requests({"v2"}, {"valid"}, {"osm_landmarks"}, {0}, {FALSE},
                             {NoneStr, "geojson"}) : Submit(r)
    \/ \E s \in DOMAIN tasks : \E out \in Outcomes(s) : StartTask(s, 1, out)
    \/ \E s \in DOMAIN tasks : \E out \in Outcomes(s) : ResumeTask(s, out)
    \/ AdvanceClock
    \/ \E export_ok \in BOOLEAN : Finish(TRUE, export_ok)
    \/ NextRequest
    \/ \E storage_ok \in BOOLEAN, file_ok \in BOOLEAN, written \in 0..3 :
          UploadDesignFile(storage_ok, file_ok, written)
    \/ \E design_id \in 1..MaxDesigns, body_ok \in BOOLEAN :
          RenderDesign(design_id, body_ok)
    \/ \E storage_ok \in BOOLEAN, design_id \in 1..MaxDesigns, body_ok \in BOOLEAN :
          GetDesignMetadata(storage_ok, design_id, body_ok)

SpecErrors == InitErrors /\ [][NextErrors]_vars

\* The buildings cleaner on its own: requests of the current generation
\* for the satellite buildings with cleaning on, under every strategy a
\* cleaning_config may name (none, the three known ones, an unknown one),
\* over collections of up to MaxCleanFeatures features.
\* features whose footprints overlap in pairs (the second and third, the
\* third and fourth), and one below the confidence threshold
CleanPool ==
    <<Feat(1, 50, 40, 50, 0, TRUE, "inside"),
      Feat(2, 90, 0, 10, 0, TRUE, "inside"),
      Feat(3, 80, 5, 17, 0, TRUE, "inside"),
      Feat(4, 70, 12, 20, 0, TRUE, "inside")>>

NextClean ==
    \/ /\ req.phase = "idle"
       /\ \E r \in Requests({"v2"}, {"valid"}, {"google_buildings"}, {0}, {TRUE},
                             {NoneStr}),
             c \in {NoneStr, "largest_area", "highest_confidence", "union",
                    "smallest_area"} :
             Submit([r EXCEPT !.cleaning_config = c])
    \/ \E s \in DOMAIN tasks :
          \E out \in [features : SubSeqs(CleanPool, MaxCleanFeatures)] :
             StartTask(s, 1, out)
    \/ \E geo_ok \in BOOLEAN : Finish(geo_ok, TRUE)

SpecClean == InitReady /\ [][NextClean]_vars

\* Direct calls of the exporters, the AOI validation and the map
\* connector's helpers, on every input within the bounds.
\* The components called keep nothing between two calls, so a behaviour
\* is one call: each is made while no call has been made yet.
NextCalls ==
    \/ /\ call = NoCall
       /\ \E e \in GeoJSONEncoders, r \in ExportResponses : EncodeGeoJSON(e, r)
    \/ /\ call = NoCall
       /\ \E e \in CsvEncoders, r \in ExportResponses : EncodeCsv(e, r)
    \/ /\ call = NoCall
       /\ \E j \in JobIds,
             f \in {"geojson", "kml", "kmz", "csv", "shapefile", "dwg"} :
             ExportSingleFormat(j, f)
    \/ /\ call = NoCall
       /\ \E j \in JobIds,
             f \in {"geojson", "kml", "kmz", "csv", "shapefile", "dwg"} :
             DownloadExport(j, f)
    \/ /\ call = NoCall
       /\ \E r \in Rings : ValidateAoiPolygon(r)
    \/ /\ call = NoCall
       /\ \E s \in OSMSources,
             a \in [status : {200, 429, 404, 500}]
                      \cup [failure : {"timeout", "connection error"}] :
             ExtractFeatures(s, a)
    \/ /\ call = NoCall
       /\ \E e \in OsmElements : ConvertOsmElement(e)
    \/ /\ call = NoCall
       /\ \E lon \in {10, 35, 50}, lat \in {-20, -3, 0, 10},
             load \in {"ok", "raises"}, info \in {"ok", "raises"},
             found \in 0..MaxFeatures :
             ExtractMicrosoftBuildings(lon, lat, load, info, found)
    \/ /\ call = NoCall
       /\ \E f \in {<<"design", ".kmz">>, <<"DESIGN", ".KML">>,
                    <<"design", ".geojson">>, <<"design", ".JSON">>,
                    <<"design">>, <<"design", ".txt">>},
             c \in UNION {[1..n -> {"PK", "{fc}", "{}", "{<kml>}", "<kml>", "<KML>",
                                      "<?xml?>", " ", "0xFF", "abc"}] :
                             n \in 0..MaxChunks} : DetectFormat(f, c)

SpecCalls == InitReady /\ [][NextCalls]_vars

\* The startup sequence: steps are added, report through their handles and
\* the sequence is finished.
NextStartup ==
    \/ \E name \in {"config", "gee-auth"} : AddStep(name)
    \/ \E h \in 1..MaxSteps, summary \in {"", "ready"} : StepSuccess(h, summary)
    \/ \E h \in 1..MaxSteps, error_msg \in {"", "refused"},
          details \in {NoneStr, "trace"} : StepError(h, error_msg, details)
    \/ \E h \in 1..MaxSteps, exc_val \in {"", "timed out"} : StepExit(h, exc_val)
    \/ FinishStartup

SpecStartup == InitReady /\ [][NextStartup]_vars

\* Queries through one map connector instance, one after another or
\* several at a time, with time passing in between.
NextLimiter ==
    \/ ApplyRateLimit
    \/ \E c \in 1..MaxQueries : WakeRateLimit(c)
    \/ \E d \in {1, 2} : Tick(d)

SpecLimiter == InitReady /\ [][NextLimiter]_vars


----------------------------------------------------------------------------
(* Properties *)

ExtractRoutes == {"extract_v1", "extract_v2"}

\* the extraction request in req has been answered with an aggregate
Answered200 ==
    /\ req.phase = "answered"
    /\ http.route \in ExtractRoutes
    /\ http.job = req.job_id
    /\ http.code = 200

\* the answered request passed validation
PassedValidation == ValidAoi(req.aoi) /\ DOMAIN req.timeouts # {}

\* C1: in the current generation, a job stored by an extract request is
\* found by a later download or job-status request for the same job id in
\* the same process, as long as its TTL has not elapsed and it was not
\* deleted.
C1_StoredJobRetrievable ==
    http.route \in {"download_v2", "status_v2"} =>
        LET rec == hist.stored["extract_v2"][http.job]
        IN  (/\ rec # Absent
             /\ http.at >= rec.at
             /\ http.at < rec.at + rec.ttl
             /\ http.job \notin hist.deleted) => http.code # 404

\* C2: after an extraction over N enabled sources (no inline export
\* involved) the aggregate's results map has exactly one entry per
\* originally enabled source, and a failing source, also one whose
\* connector could not be built, is a FAILED entry with an error text
\* instead of an aborted request.
C2_OneEntryPerEnabledSource ==
    (/\ req.phase = "answered"
     /\ PassedValidation
     /\ req.export_format = NoneStr) =>
        /\ Answered200
        /\ DOMAIN http.body.results = DOMAIN req.timeouts
        /\ \A s \in DOMAIN http.body.results :
              http.body.results[s].source = s
              /\ (http.body.results[s].status = FAILED
                    => http.body.results[s].error # NoneStr)

\* C3: within one extraction request the result of source b is ready no
\* later than b's own provider needs to answer, whatever a sibling source
\* a does, when b's answer time is below a's configured timeout.
C3_SiblingNotDelayed ==
    \A a \in DOMAIN tasks : \A b \in DOMAIN tasks :
        (/\ a # b
         /\ tasks[b].pc = "done"
         /\ tasks[b].delay < req.timeouts[a]) =>
            tasks[b].finished <= req.started + tasks[b].delay

\* C4: a connector call that takes longer than the source's configured
\* timeout (default 30 s) is ended by a TimeoutError and becomes a FAILED
\* result of that source.
C4_CallBoundedByTimeout ==
    \A s \in DOMAIN tasks :
        (tasks[s].pc = "done" /\ tasks[s].delay > req.timeouts[s]) =>
            /\ tasks[s].result.status = FAILED
            /\ tasks[s].result.error = "TimeoutError"

\* C5: an extraction request in which some sources fail and at least one
\* succeeds is answered with HTTP 200 and overall status "partial".
C5_PartialIsHttp200 ==
    (/\ req.phase = "answered"
     /\ \E s \in DOMAIN tasks : tasks[s].result.status = COMPLETED
     /\ \E s \in DOMAIN tasks : tasks[s].result.status = FAILED) =>
        /\ Answered200
        /\ http.body.status = PARTIAL

\* C6: in both generations a validation error (malformed or oversized AOI,
\* or no enabled source) is answered with HTTP 400 before any connector is
\* built or invoked.
C6_ValidationErrorIs400 ==
    (req.phase = "answered" /\ ~PassedValidation) =>
        /\ http.code = 400
        /\ built = {}
        /\ tasks = << >>

\* FAILED iff no source succeeded, COMPLETED iff all did, PARTIAL otherwise
StatusMatchesSources(aggregate) ==
    LET n == Cardinality(DOMAIN aggregate.results)
        succeeded == Cardinality({s \in DOMAIN aggregate.results :
                                     aggregate.results[s].status = COMPLETED})
    IN  /\ aggregate.status = FAILED <=> succeeded = 0
        /\ aggregate.status = COMPLETED <=> succeeded = n
        /\ aggregate.status = PARTIAL <=> (0 < succeeded /\ succeeded < n)

\* the aggregates stored in the store of the extract route
StoredAggregates ==
    {stores["extract_v2"].storage[j].data :
        j \in {k \in JobIds : stores["extract_v2"].storage[k] # Absent}}

\* C7: the overall status of every returned or stored aggregate is FAILED
\* iff zero sources succeeded, COMPLETED iff all enabled sources succeeded,
\* and PARTIAL otherwise, a source having succeeded exactly when its own
\* status is COMPLETED.
C7_StatusMatchesSources ==
    /\ Answered200 =>
          /\ DOMAIN http.body.results = DOMAIN req.timeouts
          /\ StatusMatchesSources(http.body)
    /\ \A aggregate \in StoredAggregates : StatusMatchesSources(aggregate)

\* C7 witness: a returned aggregate with one succeeded and one failed source
C7_Witness ==
    /\ Answered200
    /\ http.body.status = PARTIAL
    /\ \E s \in DOMAIN http.body.results : http.body.results[s].status = FAILED
    /\ \E s \in DOMAIN http.body.results : http.body.results[s].status = COMPLETED

\* C8: a job stored with a TTL of t seconds is returned by get at any
\* moment before t has elapsed (unless deleted or overwritten since),
\* whatever calls were interleaved, and get returns absent at any moment
\* after t has elapsed.
C8_ReturnedUntilTtlElapsed ==
    LET l == hist.lookup
    IN  (l.job # 0 /\ l.rec # Absent) =>
            /\ l.at < l.rec.at + l.rec.ttl => l.value = l.rec.data
            /\ l.at > l.rec.at + l.rec.ttl => l.value = Absent

\* C8 witness: a get some time after the store but before the TTL has
\* elapsed returns the job, while the other job of the store has expired
C8_Witness ==
    LET l == hist.lookup
    IN  /\ l.job # 0
        /\ l.rec # Absent
        /\ l.at > l.rec.at
        /\ l.at < l.rec.at + l.rec.ttl
        /\ l.value = l.rec.data
        /\ \E j \in JobIds \ {l.job} :
              /\ hist.stored[l.inst][j] # Absent
              /\ l.at > hist.stored[l.inst][j].at + hist.stored[l.inst][j].ttl

\* the cleaning configuration the answered request ran with
CleanerConfigOf(r) ==
    IF r.gen = "v2" THEN CleanerConfigV2(r.cleaning_config)
    ELSE CleanerConfigV1(r.cleaning_config)

\* a cleaning step was applied to source s of the answered request
CleaningApplied(s) ==
    \/ req.clean /\ s \in BuildingSources
    \/ req.gen = "v2" /\ req.clean_roads /\ s = "osm_roads"

\* the cleaning run source s went through
CleaningRunOf(s) ==
    IF s \in BuildingSources
    THEN CleanRun(s, tasks[s].result.data, CleanerConfigOf(req), req.geo_ok)
    ELSE CleanOsmRoadsRun(tasks[s].result.data, req.geo_ok)

\* feature f has a place in the cleaned collection of source s
PassesCleaning(s, f, cfg) ==
    IF s = "google_buildings"
    THEN /\ f.confidence >= cfg.google_min_confidence
         /\ EffectiveArea(f) >= cfg.min_area_m2
         /\ f.shape_ok
    ELSE IF s = "microsoft_buildings" THEN TRUE
    ELSE f.aoi # "outside"

\* C9: when a cleaning step (building cleaning or road clipping) fails
\* for a source, the source's result keeps the original collection and
\* the request proceeds; a cleaning run that does not fail hands back a
\* cleaned collection, none of whose features the cleaner's filters reject.
C9_CleaningFailureKeepsOriginal ==
    (req.phase = "answered" /\ PassedValidation /\ req.export_format = NoneStr
     /\ tasks # << >>) =>
        /\ Answered200
        /\ \A s \in DOMAIN tasks :
              CleaningApplied(s) =>
                 /\ CleaningRunOf(s).raised =>
                       http.body.results[s].data = tasks[s].result.data
                 /\ ~CleaningRunOf(s).raised =>
                       \A i \in 1..Len(http.body.results[s].data) :
                           PassesCleaning(s, http.body.results[s].data[i],
                                          CleanerConfigOf(req))

\* total_features is the sum of the per-source counts and each count the
\* number of features of the source's collection
CountsMatchCollections(aggregate) ==
    /\ \A s \in DOMAIN aggregate.results :
          aggregate.results[s].count = Len(aggregate.results[s].data)
    /\ aggregate.total_features =
          Cardinality(UNION {{<<s, i>> : i \in 1..aggregate.results[s].count} :
                                s \in DOMAIN aggregate.results})

\* C10: in every aggregate that is returned or stored, total_features
\* equals the sum of the per-source feature counts and each per-source
\* count the number of features in that source's collection, also after
\* building cleaning or road clipping changed a source's features.
C10_CountsMatchCollections ==
    /\ Answered200 => CountsMatchCollections(http.body)
    /\ \A aggregate \in StoredAggregates : CountsMatchCollections(aggregate)

\* C10 witness: a returned and stored aggregate in which cleaning removed
\* features of one source and another source still has some
C10_Witness ==
    /\ Answered200
    /\ http.body \in StoredAggregates
    /\ \E s \in DOMAIN tasks :
          /\ Len(http.body.results[s].data) < Len(tasks[s].result.data)
          /\ http.body.total_features > http.body.results[s].count

\* the pieces of text of a response body
BodyText(body) ==
    IF "detail" \in DOMAIN body THEN SeqRange(body.detail)
    ELSE IF "details" \in DOMAIN body
    THEN SeqRange(body.message) \cup SeqRange(body.details)
    ELSE {}

\* C11: with debug=false no HTTP error response body of any route holds
\* the raw text of an unexpected internal exception.
C11_NoRawTextUnlessDebug ==
    (http.code >= 400 /\ ~debug) => RawText \notin BodyText(http.body)

\* C12: under the default cleaning configuration (google_min_confidence
\* 0.65) a cleaned Google-buildings collection holds no feature whose
\* confidence is below 0.65, whatever else the collection held (the
\* geometry library working).
C12_LowConfidenceDropped ==
    (/\ Answered200
     /\ req.clean
     /\ req.geo_ok
     /\ "google_buildings" \in DOMAIN http.body.results) =>
        \A i \in 1..Len(http.body.results["google_buildings"].data) :
            http.body.results["google_buildings"].data[i].confidence
                >= CleanerConfigOf(req).google_min_confidence

\* the collection the satellite-buildings source brought back and the one
\* the answered, cleaned request returns for it
GoogleBefore == tasks["google_buildings"].result.data
GoogleAfter == http.body.results["google_buildings"].data

\* a cleaning request for the satellite buildings was answered, the
\* geometry library working
GoogleCleaned ==
    /\ Answered200
    /\ req.clean
    /\ req.geo_ok
    /\ "google_buildings" \in DOMAIN http.body.results
    /\ http.body.results["google_buildings"].status = COMPLETED

\* f has a place in a cleaned collection under the request's thresholds
Survives(f) == PassesCleaning("google_buildings", f, CleanerConfigOf(req))

\* the intersection of f and g is at least 30% of the smaller one's area
OverlapAtLeast30(f, g) ==
    /\ IntersectionArea(f, g) > 0
    /\ IntersectionArea(f, g) * 100 >= 30 * Min2(GeomArea(f), GeomArea(g))

\* f and g are the only two features of the collection that get past the
\* filter stages, they overlap and f is the larger
OverlappingPair(fc, f, g) ==
    /\ f \in SeqRange(fc)
    /\ g \in SeqRange(fc)
    /\ GeomArea(f) > GeomArea(g)
    /\ OverlapAtLeast30(f, g)
    /\ {h \in SeqRange(fc) : Survives(h)} = {f, g}

\* C13: two overlapping polygons whose intersection is at least 30% of the
\* smaller one's area are reduced to exactly one feature under strategy
\* "largest_area", the one with the larger planar area, also when earlier
\* filter stages removed other features of the same collection.
C13_LargestAreaKeepsLarger ==
    (GoogleCleaned /\ req.cleaning_config = "largest_area") =>
        \A f \in SeqRange(GoogleBefore) : \A g \in SeqRange(GoogleBefore) :
            OverlappingPair(GoogleBefore, f, g) => GoogleAfter = <<f>>

\* C14: when the cleaning request names no deduplication strategy or an
\* unrecognized one, an overlap cluster is resolved as under
\* "largest_area": of two overlapping polygons (nothing else in the
\* collection, nothing filtered out) the one with the larger area is kept.
C14_DefaultStrategyIsLargestArea ==
    (/\ GoogleCleaned
     /\ req.cleaning_config \notin {"largest_area", "highest_confidence", "union"}
     /\ Len(GoogleBefore) = 2) =>
        \A f \in SeqRange(GoogleBefore) : \A g \in SeqRange(GoogleBefore) :
            OverlappingPair(GoogleBefore, f, g) => GoogleAfter = <<f>>

\* C15: every feature produced by every GeoJSON encoder (legacy exporter,
\* export service of the current generation, legacy inline converter)
\* carries non-empty atlas_source and atlas_source_status properties and
\* no description property.
C15_AttributionOnEveryFeature ==
    call.fn \in GeoJSONEncoders =>
        \A i \in 1..Len(call.out.features) :
            LET d == call.out.features[i].properties
            IN  /\ <<"atlas_source">> \in DOMAIN d
                /\ d[<<"atlas_source">>] # ""
                /\ <<"atlas_source_status">> \in DOMAIN d
                /\ d[<<"atlas_source_status">>] # ""
                /\ <<"description">> \notin DOMAIN d


\* C17: for every implemented format, the legacy export manager's
\* export_single_format writes the export to a file in the job's temp
\* directory and returns that file's path to its caller.
C17_ExportSingleFormatReturnsPath ==
    (call.fn = "ExportManager.export_single_format"
        /\ call.arg.export_format \in ImplementedFormats) =>
        /\ call.out.returned # Absent
        /\ call.out.returned \in call.out.written
        /\ call.out.returned.dir = call.arg.job_id


\* the property keys present on the features a CSV encoder was given
InputKeys(results) ==
    UNION {DOMAIN results[r[1]].features[r[2]].properties : r \in AllFeatures(results)}

ReportedErrors == {call.out[3][i].error : i \in 1..Len(call.out[3])}

\* C18: polygon validation collects all violations of a ring in its error
\* list rather than stopping at the first one; only a degenerate or
\* self-intersecting ring returns immediately, without an area figure.
C18_AllViolationsCollected ==
    (call.fn = "validate_aoi_polygon" /\ call.arg.polygon = "valid") =>
        /\ call.arg.coords[1] # call.arg.coords[Len(call.arg.coords)]
              => "Polygon must be closed" \in ReportedErrors
        /\ Len(call.arg.coords) < 4
              => "Polygon must have at least 4 coordinate pairs" \in ReportedErrors
        /\ call.arg.area_km2 <= 0
              => "Polygon area must be greater than 0" \in ReportedErrors
        /\ call.arg.area_km2 > MaxAoiAreaKm2
              => "Polygon area exceeds maximum allowed" \in ReportedErrors
        /\ (\E i \in 1..Len(call.arg.coords) : call.arg.coords[i][1] > 180)
              => "Invalid longitude" \in ReportedErrors
        /\ (\E i \in 1..Len(call.arg.coords) : call.arg.coords[i][2] > 90)
              => "Invalid latitude" \in ReportedErrors

\* C19: an HTTP 429 answer from the Overpass provider surfaces from the
\* connector's extraction as a RateLimitError, and any other non-2xx
\* answer or network failure surfaces as a DataSourceError.
C19_RateLimitSurfaces ==
    call.fn = "OpenStreetMapConnector.extract_features" =>
        IF "failure" \in DOMAIN call.arg.answer
        THEN call.out.raised = "DataSourceError"
        ELSE /\ call.arg.answer.status = 429 => call.out.raised = "RateLimitError"
             /\ call.arg.answer.status \in {404, 500}
                   => call.out.raised = "DataSourceError"

\* C20: a relation with an embedded geometry array is converted to a
\* feature the same way as a way (closed ring to Polygon, otherwise
\* LineString), and a relation without a geometry array is skipped.
C20_RelationConvertedLikeWay ==
    (call.fn = "OpenStreetMapConnector._convert_osm_element_to_feature"
        /\ call.arg.type = "relation") =>
        IF "geometry" \in DOMAIN call.arg /\ Len(call.arg.geometry) >= 2
        THEN /\ call.out # Absent
             /\ call.out.geometry.type =
                   IF Len(call.arg.geometry) >= 4
                      /\ call.arg.geometry[1] = call.arg.geometry[Len(call.arg.geometry)]
                   THEN "Polygon" ELSE "LineString"
        ELSE call.out = Absent


\* C23: a store call sweeps every expired entry out of the in-memory job
\* map exactly when at least 300 seconds have elapsed since the last
\* sweep, however long that elapsed time is (more than one day included);
\* otherwise it sweeps nothing.
C23_SweepWhenIntervalElapsed ==
    [][\A j \in JobIds :
          (hist'.stored[StoreInstance][j] # hist.stored[StoreInstance][j]
              /\ hist'.stored[StoreInstance][j] # Absent) =>
          \A k \in JobIds \ {j} :
             stores[StoreInstance].storage[k] # Absent =>
                (stores'[StoreInstance].storage[k] = Absent
                   <=> /\ now - stores[StoreInstance].last_cleanup >= CleanupInterval
                       /\ now > stores[StoreInstance].storage[k].expires_at)]_vars


\* C26: in the legacy aggregator a source whose connector extraction
\* succeeds yields a COMPLETED result carrying the extracted features; a
\* source is reported FAILED only when its connector's construction
\* (ProcessingError) or its extraction (DataSourceError) actually failed
\* or the extraction timed out (TimeoutError).
C26_LegacyFailedOnlyOnFailure ==
    req.gen = "v1" =>
        \A s \in DOMAIN tasks :
            (tasks[s].pc = "done" /\ tasks[s].result.status = FAILED) =>
                tasks[s].result.error
                    \in {"ProcessingError", "DataSourceError", "TimeoutError"}


\* C28: in every CSV export row the attribution columns (atlas_source and
\* the source-status column) and the geometry columns hold the values the
\* exporter computed, even when the feature has a property of the same
\* name.
C28_AttributionColumnsKept ==
    call.fn \in CsvEncoders =>
        \A r \in DOMAIN call.out.rows :
            /\ call.out.rows[r][<<"atlas_source">>] = r[1]
            /\ call.out.rows[r][<<"geometry_type">>] = "Polygon"
            /\ call.out.rows[r][<<"geometry_wkt">>] = "POLYGON ((...))"
            /\ \A c \in {<<"atlas_source_status">>, <<"atlas_status">>}
                          \cap DOMAIN call.out.rows[r] :
                  call.out.rows[r][c] = call.arg[r[1]].status


\* C29: the legacy export-download route answers with the client error it
\* raises, HTTP 400 for an unsupported format and HTTP 404 for a job id
\* that is not in the store, and not with HTTP 500.
C29_ClientErrorsSurface ==
    (call.fn = "download_export" /\ call.arg.raised \in {400, 404}) =>
        /\ call.out.code = call.arg.raised
        /\ http.code # 500


\* C22 (as stated): a buffer that begins with the ZIP magic is classified
\* KMZ, a JSON FeatureCollection object GeoJSON, text containing <kml KML,
\* and a buffer that is none of these raises the format-detection error.
C22_ContentDecides ==
    call.fn = "DesignParser._detect_format" =>
        LET content == call.arg.content
            zip == Len(content) >= 1 /\ content[1] = "PK"
            fc == content = <<"{fc}">>
            kml == /\ \A i \in DOMAIN content : content[i] # "0xFF"
                   /\ \E i \in DOMAIN content : content[i] \in {"<kml>", "{<kml>}"}
        IN  /\ zip => call.out = "kmz"
            /\ fc => call.out = "geojson"
            /\ kml => call.out = "kml"
            /\ ~(zip \/ fc \/ kml) => call.out = "ValidationError"

\* C22 (amended): the filename's extension decides first, whatever the
\* content; only under a filename with none of the known extensions does the
\* content decide, in this order: a buffer beginning with PK is KMZ, UTF-8
\* text that parses as any JSON document is GeoJSON, UTF-8 text containing
\* <kml or <?xml in either case is KML, anything else raises the error.
C22_ExtensionThenContent ==
    call.fn = "DesignParser._detect_format" =>
        LET content == call.arg.content
            name == call.arg.filename
            ext == IF name = << >> THEN "" ELSE name[Len(name)]
            known == {".kmz", ".KMZ", ".kml", ".KML", ".geojson", ".json", ".JSON"}
            zip == content # << >> /\ Head(content) = "PK"
            utf8 == "0xFF" \notin {content[i] : i \in DOMAIN content}
            docs == {i \in DOMAIN content : content[i] \in {"{fc}", "{}", "{<kml>}"}}
            json == /\ Cardinality(docs) = 1
                    /\ \A i \in DOMAIN content \ docs : content[i] = " "
            xml == {content[i] : i \in DOMAIN content}
                      \cap {"<kml>", "<KML>", "{<kml>}", "<?xml?>"} # {}
        IN  /\ ext \in {".kmz", ".KMZ"} => call.out = "kmz"
            /\ ext \in {".kml", ".KML"} => call.out = "kml"
            /\ ext \in {".geojson", ".json", ".JSON"} => call.out = "geojson"
            /\ ext \notin known =>
                  /\ zip => call.out = "kmz"
                  /\ (~zip /\ utf8 /\ json) => call.out = "geojson"
                  /\ (~zip /\ utf8 /\ ~json /\ xml) => call.out = "kml"
                  /\ (~zip /\ ~(utf8 /\ (json \/ xml))) =>
                        call.out = "ValidationError"

\* a buffer beginning with PK under a filename without a known extension
C22_Witness ==
    /\ call.fn = "DesignParser._detect_format"
    /\ call.arg.filename = <<"design">>
    /\ call.arg.content = <<"PK", "abc">>
    /\ call.out = "kmz"


\* C21: a Microsoft-buildings extraction whose AOI centroid lies outside
\* every region of the region table (Kenya, Nigeria, Tanzania) ends in an
\* error, never in a result.
C21_OutsideRegionsFails ==
    (/\ call.fn = "GoogleEarthEngineConnector._extract_microsoft_buildings"
     /\ ~(call.arg.lat \in -5..5 /\ call.arg.lon \in 33..42)
     /\ ~(call.arg.lat \in 4..14 /\ call.arg.lon \in 2..15)
     /\ ~(call.arg.lat \in -12..-1 /\ call.arg.lon \in 29..41)) =>
        call.out.status = "DataSourceError"


\* C25: once the startup sequence is finished with some step in the failed
\* status, the verbose diagnostic dump was rendered, not the compact output,
\* whatever error message the failing report carried.
C25_FailureRendersVerbose ==
    (/\ startup.output # "none"
     /\ \E i \in DOMAIN startup.steps : startup.steps[i].status = "failed") =>
        startup.output = "verbose"

\* C30: the latest success or error reported through the handle of a step
\* is the status recorded for that step, however many steps were added
\* after it.
C30_ReportRecordedAgainstItsStep ==
    startup.last.handle # 0 =>
        startup.steps[startup.last.handle].status = startup.last.status


\* C24: any two queries issued through the same connector instance are at
\* least the minimum interval apart, also when their calls overlap.
C24_QueriesKeepTheInterval ==
    \A i \in DOMAIN limiter.issued, j \in DOMAIN limiter.issued :
        i < j => limiter.issued[j] - limiter.issued[i] >= MinRequestInterval


\* C27: a design whose upload was answered "processed" has all three of its
\* documents stored, and a metadata or render request answered 200 found a
\* design with all three documents.
C27_ProcessedDesignsAreComplete ==
    /\ \A d \in DOMAIN designs :
          designs[d].answered = "processed" => designs[d].docs = 3
    /\ (http.route \in {"design_metadata", "design_render"} /\ http.code = 200) =>
          designs[http.job].docs = 3

====
